---- MODULE Spec2Model ----
(***************************************************************************)
(* A model of the dhall-rust core: the shared Value cells of the          *)
(* normaliser (semantics/nze/value.rs) and the AST builder of the parser   *)
(* (parser.rs).                                                            *)
(*                                                                         *)
(* Value cells live in `heap`, a sequence of cells; a Value (an Rc handle) *)
(* is the index of its cell, and 0 stands for Option::None.                *)
(***************************************************************************)
EXTENDS Integers, Sequences, FiniteSets, TLC

VARIABLES
    built,    \* whether the caller has constructed its Value
    heap,     \* the ValueInternal cells allocated so far
    handles,  \* handles[c]: how many Value handles of cell c the caller owns
    urefs,    \* urefs[c]: how many Ref<ValueKind> from kind() the caller keeps alive
    panic,    \* "none", or the panic that ended the program
    fresh,    \* the counter behind NzVar::fresh()
    last,     \* the operation that ran last, its argument and what it returned
    texts,    \* the TextLits the caller holds (text literals)
    input,    \* the parse tree pest hands to the AST builder (parser)
    result,   \* what parse_expr_pest returned (parser)
    calls     \* the calls main has made so far, with their outcomes (CLI)

vars == <<built, heap, handles, urefs, panic, fresh, last, texts, input, result, calls>>

\* The variables of the text-literal, parser and CLI specifications
others == <<texts, input, result, calls>>

----------------------------------------------------------------------------
(* Bounds of the model *)

MaxCells == 8
MaxHeld == 3
MaxFresh == 1

CellIds == 1..MaxCells

----------------------------------------------------------------------------
(* Data *)

\* Option::None for an Option<Value>
NoValue == 0

\* Span::Artificial; a span taken from the source is a positive number
Artificial == 0

NoClosure == [ctag |-> "None", arg_ty |-> 0, env |-> <<>>, body |-> "none"]

\* A ValueKind (and an ExprKind<Value>): its constructor, its scalar payload
\* (a Const, a Builtin, a Label, the tag of a stuck expression), a number, its
\* sub-Values in declaration order (0 for a None in a union type), its closure
\* and, for a TextLit, its chunks.
Kind(tag, sub, n, vals, clo) ==
    [tag |-> tag, sub |-> sub, n |-> n, vals |-> vals, clo |-> clo,
     chunks |-> <<>>]

NoKind == Kind("None", "", 0, <<>>, NoClosure)

\* InterpolatedTextContents<Value>: Text(s) or Expr(v)
Text(s) == [isText |-> TRUE, s |-> s, v |-> 0]

Expr(v) == [isText |-> FALSE, s |-> "", v |-> v]

\* ValueKind::TextLit(TextLit(chunks))
KTextLit(chunks) ==
    [tag |-> "TextLit", sub |-> "", n |-> 0, vals |-> <<>>, clo |-> NoClosure,
     chunks |-> chunks]

KConst(c) == Kind("Const", c, 0, <<>>, NoClosure)

\* The typed expressions (TyExpr) the model evaluates, by name: the node, the
\* cell of its type (0: no type, the expression is Sort), its span and its
\* sub-expressions. The universe cells 1, 2, 3 are Sort, Kind, Type.
TyExprs ==
    [ sort    |-> [tag |-> "Const",      sub |-> "Sort",    ty |-> 0, span |-> 1, n |-> 0, subs |-> <<>>],
      kind    |-> [tag |-> "Const",      sub |-> "Kind",    ty |-> 1, span |-> 1, n |-> 0, subs |-> <<>>],
      type    |-> [tag |-> "Const",      sub |-> "Type",    ty |-> 2, span |-> 1, n |-> 0, subs |-> <<>>],
      natural |-> [tag |-> "Builtin",    sub |-> "Natural", ty |-> 3, span |-> 2, n |-> 0, subs |-> <<>>],
      var0    |-> [tag |-> "Var",        sub |-> "",        ty |-> 3, span |-> 2, n |-> 0, subs |-> <<>>],
      var1    |-> [tag |-> "Var",        sub |-> "",        ty |-> 3, span |-> 2, n |-> 1, subs |-> <<>>],
      record  |-> [tag |-> "RecordType", sub |-> "",        ty |-> 3, span |-> 3, n |-> 0, subs |-> <<"natural", "var0">>],
      annot   |-> [tag |-> "Annot",      sub |-> "",        ty |-> 3, span |-> 3, n |-> 0, subs |-> <<"var0", "type">>],
      pi      |-> [tag |-> "Pi",         sub |-> "x",       ty |-> 3, span |-> 3, n |-> 0, subs |-> <<"natural", "var0">>],
      piconst |-> [tag |-> "Pi",         sub |-> "_",       ty |-> 3, span |-> 3, n |-> 0, subs |-> <<"natural", "var1">>],
      assert  |-> [tag |-> "Assert",     sub |-> "",        ty |-> 3, span |-> 3, n |-> 0, subs |-> <<"var0">>],
      text    |-> [tag |-> "TextLit",    sub |-> "a",       ty |-> 3, span |-> 3, n |-> 0, subs |-> <<"natural">>] ]

\* A cell: ValueInternal { form, ty, span }. `k` is the ValueKind of a WHNF
\* form and the ExprKind of a PartialExpr form; `env` and `body` are the
\* Thunk's. `nev` counts the runs of Thunk::eval on the cell.
Cell(form, env, body, k, ty, span) ==
    [form |-> form, env |-> env, body |-> body, k |-> k, ty |-> ty,
     span |-> span, nev |-> 0]

\* The state an operation threads through its calls: the heap, the RefCells
\* borrowed mutably (bmut) and shared (bref) by the frames on the call stack,
\* the handles and the Refs the caller holds, the panic and the fresh-variable
\* counter.
St(h, hd, ur, fr) ==
    [heap |-> h, bmut |-> {}, bref |-> {}, handles |-> hd, uref |-> ur,
     panic |-> "none", fresh |-> fr]

Panic(st, what) == IF st.panic = "none" THEN [st EXCEPT !.panic = what] ELSE st

Ok(st) == st.panic = "none"

\* ValueInternal::new(..).into_value(): the new cell is the last of the heap
ValueInternal_new(st, cell) == [st EXCEPT !.heap = Append(@, cell)]

NewId(st) == Len(st.heap)

\* [st, kind]: what an evaluation returns
Ret(st, k) == [st |-> st, kind |-> k]

----------------------------------------------------------------------------
(* Reference counts: Rc::strong_count of a cell *)

SeqToSet(s) == {s[i] : i \in DOMAIN s}

RECURSIVE CountIn(_, _)
CountIn(x, s) ==
    IF s = <<>> THEN 0
    ELSE (IF Head(s) = x THEN 1 ELSE 0) + CountIn(x, Tail(s))

\* Every Value a cell holds: those of its form and its type
CellRefs(cell) ==
    cell.env \o cell.k.vals
        \o (IF cell.k.clo.ctag = "Closure" THEN <<cell.k.clo.arg_ty>> ELSE <<>>)
        \o cell.k.clo.env
        \o [i \in DOMAIN cell.k.chunks |-> cell.k.chunks[i].v]
        \o <<cell.ty>>

RECURSIVE ReachFrom(_, _)
ReachFrom(h, seen) ==
    LET more == {x \in DOMAIN h :
                    \E c \in seen : x \in SeqToSet(CellRefs(h[c]))} \ seen
    IN  IF more = {} THEN seen ELSE ReachFrom(h, seen \cup more)

\* The handles and Refs the caller holds of a cell; none of a cell made since
\* the operation began
HandlesOf(st, c) == IF c \in DOMAIN st.handles THEN st.handles[c] ELSE 0

RefsOf(st, c) == IF c \in DOMAIN st.uref THEN st.uref[c] ELSE 0

\* The cells that are not dropped: those the caller's handles reach
Live(st) == ReachFrom(st.heap, {c \in DOMAIN st.heap : HandlesOf(st, c) > 0})

RECURSIVE SumOver(_, _, _)
SumOver(h, x, cs) ==
    IF cs = {} THEN 0
    ELSE LET c == CHOOSE c \in cs : TRUE
         IN  CountIn(x, CellRefs(h[c])) + SumOver(h, x, cs \ {c})

StrongCount(st, x) == HandlesOf(st, x) + SumOver(st.heap, x, Live(st))

----------------------------------------------------------------------------
(* RefCell borrows *)

\* RefCell::borrow_mut panics when any borrow of the cell is live
BorrowedAtAll(st, c) == c \in st.bmut \/ c \in st.bref \/ RefsOf(st, c) > 0

\* RefCell::borrow panics when the cell is borrowed mutably
BorrowedMut(st, c) == c \in st.bmut

----------------------------------------------------------------------------
(* Forcing: value.rs, with the evaluator of semantics/nze/normalize.rs *)

\* Value::new_thunk: a Thunk cell whose type and span are the expression's
Value_new_thunk(st, env, body) ==
    ValueInternal_new(st,
        Cell("Thunk", env, body, NoKind, TyExprs[body].ty, TyExprs[body].span))

\* Value::from_kind_and_type
Value_from_kind_and_type(st, v, t) ==
    ValueInternal_new(st, Cell("WHNF", <<>>, "none", v, t, Artificial))

\* A from_partial_expr that stores no type
Value_from_partial_expr_untyped(st, e, t) ==
    ValueInternal_new(st, Cell("PartialExpr", <<>>, "none", e, NoValue, Artificial))

\* Value::from_partial_expr
Value_from_partial_expr(st, e, t) ==
    ValueInternal_new(st, Cell("PartialExpr", <<>>, "none", e, t, Artificial))

\* Value::const_sort
Value_const_sort(st) ==
    ValueInternal_new(st,
        Cell("WHNF", <<>>, "none", KConst("Sort"), NoValue, Artificial))

\* Value::from_const: Type is typed by a new Kind, Kind by a new Sort
Value_from_const(st, c) ==
    CASE c = "Sort" -> Value_const_sort(st)
      [] c = "Kind" ->
            LET s1 == Value_const_sort(st)
            IN  Value_from_kind_and_type(s1, KConst("Kind"), NewId(s1))
      [] OTHER ->
            LET s1 == Value_const_sort(st)
                s2 == Value_from_kind_and_type(s1, KConst("Kind"), NewId(s1))
            IN  Value_from_kind_and_type(s2, KConst("Type"), NewId(s2))

\* The placeholder Form::normalize_whnf leaves in the cell while it computes
Dummy == Kind("Const", "Type", 0, <<>>, NoClosure)

\* NzEnv::lookup_val: the value of the variable with de Bruijn index n
NzEnv_lookup_val(env, n) == env[Len(env) - n]

\* NzEnv::insert_value
NzEnv_insert_value(env, v) == Append(env, v)

\* TyExpr::eval of each sub-expression, left to right: one new Thunk cell each
RECURSIVE EvalSubs(_, _, _)
EvalSubs(st, env, subs) ==
    LET Cons(s1) ==
            LET Join(r) == [st |-> r.st, vals |-> <<NewId(s1)>> \o r.vals]
            IN  Join(EvalSubs(s1, env, Tail(subs)))
    IN  IF subs = <<>> THEN [st |-> st, vals |-> <<>>]
        ELSE Cons(Value_new_thunk(st, env, Head(subs)))

\* Value::check_type: the debug_assert_eq! is commented out (TODO: reenable),
\* the body is empty
Value_check_type(st, c, ty) == st

RECURSIVE ValueInternal_normalize_whnf(_, _)
RECURSIVE Form_normalize_whnf(_, _)
RECURSIVE Value_to_whnf_ignore_type(_, _)
RECURSIVE normalize_one_layer(_, _, _, _)
RECURSIVE normalize_tyexpr_whnf(_, _, _)
RECURSIVE squash_inner(_, _, _, _)
RECURSIVE squash_textlit(_, _)

\* Value::kind().clone(): force the cell, borrow it, clone its kind
Value_to_whnf_ignore_type(st, c) ==
    LET Borrow(s1) ==
            IF ~Ok(s1) THEN Ret(s1, NoKind)
            ELSE IF BorrowedMut(s1, c) THEN Ret(Panic(s1, "BorrowError"), NoKind)
            ELSE IF s1.heap[c].form # "WHNF" THEN Ret(Panic(s1, "unreachable"), NoKind)
            ELSE Ret(s1, s1.heap[c].k)
    IN  Borrow(ValueInternal_normalize_whnf(st, c))

\* Value::to_whnf_check_type: check_type, then to_whnf_ignore_type
Value_to_whnf_check_type(st, c, ty) ==
    Value_to_whnf_ignore_type(Value_check_type(st, c, ty), c)

\* normalize_one_layer: the one-layer rules for an expression over Values
normalize_one_layer(st, e, ty, env) ==
    CASE e.tag = "Const"   -> Ret(st, KConst(e.sub))
      [] e.tag = "Builtin" -> Ret(st, Kind("AppliedBuiltin", e.sub, 0, <<>>, NoClosure))
      [] e.tag = "Annot"   -> Value_to_whnf_check_type(st, e.vals[1], ty)
      [] e.tag \in {"RecordType", "NEListLit", "UnionType"} ->
            Ret(st, Kind(e.tag, "", 0, e.vals, NoClosure))
      [] e.tag = "TextLit" ->
            LET Single(r) ==
                    IF ~Ok(r.st) THEN Ret(r.st, NoKind)
                    ELSE IF Len(r.chunks) = 1 /\ ~r.chunks[1].isText
                         THEN Value_to_whnf_ignore_type(r.st, r.chunks[1].v)
                    ELSE Ret(r.st, KTextLit(r.chunks))
            IN  Single(squash_textlit(st,
                    <<Text(e.sub)>> \o [i \in DOMAIN e.vals |-> Expr(e.vals[i])]))
      [] OTHER -> Ret(st, Kind("PartialExpr", e.tag, e.n, e.vals, NoClosure))

\* normalize_tyexpr_whnf: a typed expression under an environment, to WHNF
normalize_tyexpr_whnf(st, body, env) ==
    LET tye == TyExprs[body]
        Binder(s1) ==
            Ret(s1, Kind(IF tye.tag = "Lam" THEN "LamClosure" ELSE "PiClosure",
                         tye.sub, 0, <<NewId(s1)>>,
                         [ctag |-> "Closure", arg_ty |-> NewId(s1),
                          env |-> env, body |-> tye.subs[2]]))
        Layer(r) ==
            normalize_one_layer(r.st, Kind(tye.tag, tye.sub, tye.n, r.vals, NoClosure),
                                tye.ty, env)
    IN  IF tye.ty = NoValue THEN Ret(st, KConst("Sort"))
        ELSE CASE tye.tag = "Var" ->
                    Value_to_whnf_check_type(st, NzEnv_lookup_val(env, tye.n), tye.ty)
               [] tye.tag \in {"Lam", "Pi"} ->
                    Binder(Value_new_thunk(st, env, tye.subs[1]))
               [] OTHER -> Layer(EvalSubs(st, env, tye.subs))

\* Thunk::eval
Thunk_eval(st, env, body) == normalize_tyexpr_whnf(st, body, env)

\* A Form::normalize_whnf that evaluates the thunk and keeps the Thunk form
Form_normalize_whnf_forget(st, c) ==
    LET old == st.heap[c]
        Count(t) == Ret([t.st EXCEPT !.heap[c].nev = @ + 1], t.kind)
        Store(r) ==
            IF ~Ok(r.st) \/ old.form = "Thunk" THEN r.st
            ELSE [r.st EXCEPT !.heap[c].form = "WHNF", !.heap[c].k = r.kind]
    IN  Store(CASE old.form = "Thunk" -> Count(Thunk_eval(st, old.env, old.body))
                [] old.form = "PartialExpr" ->
                      IF old.ty # NoValue
                      THEN normalize_one_layer(st, old.k, old.ty, <<>>)
                      ELSE Ret(st, KConst("Sort"))
                [] OTHER -> Ret(st, old.k))

\* A Form::normalize_whnf that writes the result back as a PartialExpr
Form_normalize_whnf_partial(st, c) ==
    LET old == st.heap[c]
        s0  == [st EXCEPT !.heap[c].form = "PartialExpr", !.heap[c].k = Dummy,
                          !.heap[c].env = <<>>, !.heap[c].body = "none"]
        Count(t) == Ret([t.st EXCEPT !.heap[c].nev = @ + 1], t.kind)
        Store(r) ==
            IF ~Ok(r.st) THEN r.st
            ELSE [r.st EXCEPT !.heap[c].form = "PartialExpr", !.heap[c].k = r.kind]
    IN  Store(CASE old.form = "Thunk" -> Count(Thunk_eval(s0, old.env, old.body))
                [] old.form = "PartialExpr" ->
                      IF old.ty # NoValue
                      THEN normalize_one_layer(s0, old.k, old.ty, <<>>)
                      ELSE Ret(s0, KConst("Sort"))
                [] OTHER -> Ret(s0, old.k))

\* A Form::normalize_whnf that computes from what the cell holds after the
\* swap
Form_normalize_whnf_placeholder(st, c) ==
    LET old == st.heap[c]
        s0  == [st EXCEPT !.heap[c].form = "PartialExpr", !.heap[c].k = Dummy,
                          !.heap[c].env = <<>>, !.heap[c].body = "none"]
        Count(t) == Ret([t.st EXCEPT !.heap[c].nev = @ + 1], t.kind)
        Store(r) ==
            IF ~Ok(r.st) THEN r.st
            ELSE [r.st EXCEPT !.heap[c].form = "WHNF", !.heap[c].k = r.kind]
    IN  Store(CASE old.form = "Thunk" -> Count(Thunk_eval(s0, old.env, old.body))
                [] old.form = "PartialExpr" ->
                      IF old.ty # NoValue
                      THEN normalize_one_layer(s0, s0.heap[c].k, old.ty, <<>>)
                      ELSE Ret(s0, KConst("Sort"))
                [] OTHER -> Ret(s0, old.k))

\* Form::normalize_whnf on the form of cell c, whose RefCell is borrowed
\* mutably by the caller: the form is swapped for the placeholder, computed,
\* and written back.
Form_normalize_whnf(st, c) ==
    LET old == st.heap[c]
        s0  == [st EXCEPT !.heap[c].form = "PartialExpr", !.heap[c].k = Dummy,
                          !.heap[c].env = <<>>, !.heap[c].body = "none"]
        Count(t) == Ret([t.st EXCEPT !.heap[c].nev = @ + 1], t.kind)
        Store(r) ==
            IF ~Ok(r.st) THEN r.st
            ELSE [r.st EXCEPT !.heap[c].form = "WHNF", !.heap[c].k = r.kind]
    IN  Store(CASE old.form = "Thunk" -> Count(Thunk_eval(s0, old.env, old.body))
                [] old.form = "PartialExpr" ->
                      IF old.ty # NoValue
                      THEN normalize_one_layer(s0, old.k, old.ty, <<>>)
                      ELSE Ret(s0, KConst("Sort"))
                [] OTHER -> Ret(s0, old.k))

\* A ValueInternal::normalize_whnf that takes a PartialExpr for a WHNF
ValueInternal_normalize_whnf_thunks(st, c) ==
    LET Release(s1) == IF ~Ok(s1) THEN s1 ELSE [s1 EXCEPT !.bmut = st.bmut]
    IN  IF ~Ok(st) THEN st
        ELSE IF BorrowedMut(st, c) THEN Panic(st, "BorrowError")
        ELSE IF st.heap[c].form # "Thunk" THEN st
        ELSE IF BorrowedAtAll(st, c) THEN Panic(st, "BorrowMutError")
        ELSE Release(Form_normalize_whnf([st EXCEPT !.bmut = @ \cup {c}], c))

\* ValueInternal::normalize_whnf
ValueInternal_normalize_whnf(st, c) ==
    LET Release(s1) == IF ~Ok(s1) THEN s1 ELSE [s1 EXCEPT !.bmut = st.bmut]
    IN  IF ~Ok(st) THEN st
        ELSE IF BorrowedMut(st, c) THEN Panic(st, "BorrowError")
        ELSE IF st.heap[c].form = "WHNF" THEN st
        ELSE IF BorrowedAtAll(st, c) THEN Panic(st, "BorrowMutError")
        ELSE Release(Form_normalize_whnf([st EXCEPT !.bmut = @ \cup {c}], c))

\* Value::normalize_whnf
Value_normalize_whnf(st, c) == ValueInternal_normalize_whnf(st, c)

\* squash_textlit, the loop over the chunks: a text is added to the current
\* string, an interpolated Value whose kind is a TextLit gives its chunks in
\* its place, any other closes the current string and follows it
squash_inner(st, elts, crnt, ret) ==
    LET Rest(i) == squash_inner(i.st, Tail(elts), i.crnt, i.ret)
        Chunk(r) ==
            IF ~Ok(r.st) THEN [st |-> r.st, crnt |-> crnt, ret |-> ret]
            ELSE IF r.kind.tag = "TextLit"
                 THEN Rest(squash_inner(r.st, r.kind.chunks, crnt, ret))
            ELSE Rest([st |-> r.st, crnt |-> "",
                       ret |-> ret \o (IF crnt # "" THEN <<Text(crnt)>> ELSE <<>>)
                                   \o <<Expr(Head(elts).v)>>])
    IN  IF elts = <<>> \/ ~Ok(st) THEN [st |-> st, crnt |-> crnt, ret |-> ret]
        ELSE IF Head(elts).isText
             THEN Rest([st |-> st, crnt |-> crnt \o Head(elts).s, ret |-> ret])
        ELSE Chunk(Value_to_whnf_ignore_type(st, Head(elts).v))

\* squash_textlit: [st, chunks]
squash_textlit(st, elts) ==
    LET Flush(r) ==
            [st |-> r.st,
             chunks |-> r.ret \o (IF r.crnt # "" THEN <<Text(r.crnt)>> ELSE <<>>)]
    IN  Flush(squash_inner(st, elts, "", <<>>))

----------------------------------------------------------------------------
(* Full normalisation *)

NonZero(s) == SelectSeq(s, LAMBDA x : x # NoValue)

\* The sub-Values ValueKind::normalize_mut calls normalize_mut on, in order
NormalizeMutTargets(k) ==
    CASE k.tag \in {"Var", "Const", "BoolLit", "NaturalLit", "IntegerLit", "DoubleLit"} -> <<>>
      [] k.tag \in {"EmptyOptionalLit", "EmptyListLit", "NEOptionalLit"} -> <<k.vals[1]>>
      [] k.tag \in {"LamClosure", "PiClosure"} -> <<k.vals[1]>>
      [] k.tag \in {"AppliedBuiltin", "NEListLit", "RecordLit", "RecordType"} -> k.vals
      [] k.tag = "UnionType" -> NonZero(k.vals)
      [] k.tag = "UnionConstructor" -> NonZero(SubSeq(k.vals, 1, Len(k.vals) - 1))
      [] k.tag = "UnionLit" ->
            <<k.vals[1]>> \o NonZero(SubSeq(k.vals, 2, Len(k.vals) - 2))
      [] k.tag = "TextLit" ->
            LET es == SelectSeq(k.chunks, LAMBDA ch : ~ch.isText)
            IN  [i \in DOMAIN es |-> es[i].v]
      [] k.tag = "Equivalence" -> <<k.vals[1], k.vals[2]>>
      [] k.tag = "PartialExpr" -> NonZero(k.vals)
      [] OTHER -> <<>>

RECURSIVE Form_normalize_nf(_, _)
RECURSIVE ValueKind_normalize_mut(_, _)
RECURSIVE Value_normalize_mut(_, _)

\* ValueKind::normalize_mut, on the sub-Values left to visit
ValueKind_normalize_mut(st, targets) ==
    IF targets = <<>> \/ ~Ok(st) THEN st
    ELSE ValueKind_normalize_mut(Value_normalize_mut(st, Head(targets)), Tail(targets))

\* A Form::normalize_nf that swaps the placeholder in, whatever the form, and
\* leaves it there
Form_normalize_nf_swap(st, c) ==
    LET Walk(s1) ==
            IF ~Ok(s1) THEN s1
            ELSE IF s1.heap[c].form # "WHNF" THEN Panic(s1, "unreachable")
            ELSE ValueKind_normalize_mut(
                     [s1 EXCEPT !.heap[c].form = "PartialExpr", !.heap[c].k = Dummy],
                     NormalizeMutTargets(s1.heap[c].k))
    IN  Walk(IF st.heap[c].form # "WHNF" THEN Form_normalize_whnf(st, c) ELSE st)

\* A Form::normalize_nf that stops at WHNF when it had to force the form
Form_normalize_nf_stop(st, c) ==
    IF st.heap[c].form # "WHNF" THEN Form_normalize_whnf(st, c)
    ELSE ValueKind_normalize_mut(st, NormalizeMutTargets(st.heap[c].k))

\* Form::normalize_nf on the form of cell c
Form_normalize_nf(st, c) ==
    LET Walk(s1) ==
            IF ~Ok(s1) THEN s1
            ELSE IF s1.heap[c].form # "WHNF" THEN Panic(s1, "unreachable")
            ELSE ValueKind_normalize_mut(s1, NormalizeMutTargets(s1.heap[c].k))
    IN  Walk(IF st.heap[c].form # "WHNF" THEN Form_normalize_whnf(st, c) ELSE st)

\* A normalize_mut whose sole-owner path stops at the first layer
Value_normalize_mut_layer(st, c) ==
    LET sole == StrongCount(st, c) = 1
        Release(s1) == IF ~Ok(s1) THEN s1 ELSE [s1 EXCEPT !.bmut = st.bmut]
    IN  IF ~Ok(st) THEN st
        ELSE IF ~sole /\ BorrowedAtAll(st, c) THEN Panic(st, "BorrowMutError")
        ELSE IF sole THEN Form_normalize_nf_stop(st, c)
        ELSE Release(Form_normalize_nf([st EXCEPT !.bmut = @ \cup {c}], c))

\* Value::mutate_form with Form::normalize_nf (Value::normalize_mut): the sole
\* owner mutates the form directly, anyone else through the RefCell
Value_normalize_mut(st, c) ==
    LET sole == StrongCount(st, c) = 1
        Release(s1) == IF ~Ok(s1) THEN s1 ELSE [s1 EXCEPT !.bmut = st.bmut]
    IN  IF ~Ok(st) THEN st
        ELSE IF ~sole /\ BorrowedAtAll(st, c) THEN Panic(st, "BorrowMutError")
        ELSE Release(Form_normalize_nf(
                 IF sole THEN st ELSE [st EXCEPT !.bmut = @ \cup {c}], c))

\* ValueInternal::normalize_nf (Value::normalize_nf)
ValueInternal_normalize_nf(st, c) ==
    LET Release(s1) == IF ~Ok(s1) THEN s1 ELSE [s1 EXCEPT !.bmut = st.bmut]
    IN  IF ~Ok(st) THEN st
        ELSE IF BorrowedAtAll(st, c) THEN Panic(st, "BorrowMutError")
        ELSE Release(Form_normalize_nf([st EXCEPT !.bmut = @ \cup {c}], c))

----------------------------------------------------------------------------
(* Closures *)

\* Closure::apply: the body as a new Thunk under the (extended) environment
Closure_apply_insert(st, clo, val) ==
    Value_new_thunk(st, NzEnv_insert_value(clo.env, val), clo.body)

\* Closure::apply
Closure_apply(st, clo, val) ==
    IF clo.ctag = "Closure"
    THEN Value_new_thunk(st, NzEnv_insert_value(clo.env, val), clo.body)
    ELSE Value_new_thunk(st, clo.env, clo.body)

KVar(origin, n) == Kind("Var", origin, n, <<>>, NoClosure)

\* Closure::apply_var
Closure_apply_var(st, clo, var) ==
    LET Apply(s1) == Closure_apply(s1, clo, NewId(s1))
    IN  IF clo.ctag = "Closure"
        THEN Apply(Value_from_kind_and_type(st, var, clo.arg_ty))
        ELSE Value_new_thunk(st, clo.env, clo.body)

\* NzVar::fresh()
NzVar_fresh(st) == KVar("fresh", st.fresh)

TakeFresh(st) == [st EXCEPT !.fresh = @ + 1]

\* Closure::remove_binder: [st, ok, value]
Closure_remove_binder(st, clo) ==
    LET Done(s1) == [st |-> s1, ok |-> TRUE, value |-> NewId(s1)]
    IN  Done(Closure_apply_var(TakeFresh(st), clo, NzVar_fresh(st)))

----------------------------------------------------------------------------
(* Equality: impl PartialEq for Value, ValueKind (derived), Closure *)

RECURSIVE Value_eq(_, _, _)
RECURSIVE ValueKind_eq(_, _, _)
RECURSIVE Closure_eq(_, _, _)
RECURSIVE ValsEq(_, _, _)
RECURSIVE ChunksEq(_, _, _)

Res(st, b) == [st |-> st, res |-> b]

\* Option<Value> and Vec<Value> fields, compared in order up to the first difference
ValsEq(st, xs, ys) ==
    LET Next(r) == IF r.res THEN ValsEq(r.st, Tail(xs), Tail(ys)) ELSE r
    IN  IF ~Ok(st) THEN Res(st, FALSE)
        ELSE IF Len(xs) # Len(ys) THEN Res(st, FALSE)
        ELSE IF xs = <<>> THEN Res(st, TRUE)
        ELSE IF Head(xs) = NoValue \/ Head(ys) = NoValue
             THEN Next(Res(st, Head(xs) = Head(ys)))
        ELSE Next(Value_eq(st, Head(xs), Head(ys)))

\* Vec<InterpolatedTextContents<Value>>
ChunksEq(st, xs, ys) ==
    LET Next(r) == IF r.res THEN ChunksEq(r.st, Tail(xs), Tail(ys)) ELSE r
    IN  IF ~Ok(st) THEN Res(st, FALSE)
        ELSE IF Len(xs) # Len(ys) THEN Res(st, FALSE)
        ELSE IF xs = <<>> THEN Res(st, TRUE)
        ELSE IF Head(xs).isText # Head(ys).isText THEN Res(st, FALSE)
        ELSE IF Head(xs).isText THEN Next(Res(st, Head(xs).s = Head(ys).s))
        ELSE Next(Value_eq(st, Head(xs).v, Head(ys).v))

\* An == of closures that takes a fresh variable for each closure
Closure_eq_two_vars(st, c1, c2) ==
    LET Both(s1) ==
            LET Compare(s2) == Value_eq(s2, NewId(s1), NewId(s2))
            IN  Compare(Closure_apply_var(TakeFresh(s1), c2, NzVar_fresh(s1)))
    IN  Both(Closure_apply_var(TakeFresh(st), c1, NzVar_fresh(st)))

\* impl PartialEq for Closure: both applied to one fresh variable
Closure_eq(st, c1, c2) ==
    LET Both(s1) ==
            LET Compare(s2) == Value_eq(s2, NewId(s1), NewId(s2))
            IN  Compare(Closure_apply_var(s1, c2, NzVar_fresh(st)))
    IN  Both(Closure_apply_var(TakeFresh(st), c1, NzVar_fresh(st)))

\* #[derive(PartialEq)] on ValueKind: the same constructor and equal fields;
\* a binder equals any binder
ValueKind_eq(st, ka, kb) ==
    LET Closures(r) == IF r.res THEN Closure_eq(r.st, ka.clo, kb.clo) ELSE r
        Chunks(r) == IF r.res THEN ChunksEq(r.st, ka.chunks, kb.chunks) ELSE r
    IN  IF ka.tag # kb.tag THEN Res(st, FALSE)
        ELSE IF ka.tag \in {"LamClosure", "PiClosure"}
             THEN Closures(ValsEq(st, ka.vals, kb.vals))
        ELSE IF ka.sub # kb.sub \/ ka.n # kb.n THEN Res(st, FALSE)
        ELSE Chunks(ValsEq(st, ka.vals, kb.vals))

\* An == that also compares the spans of the two cells
Value_eq_spans(st, a, b) ==
    LET Restore(r) ==
            IF ~Ok(r.st) THEN r
            ELSE Res([r.st EXCEPT !.bref = st.bref],
                     r.res /\ st.heap[a].span = st.heap[b].span)
        Compare(s2) ==
            IF ~Ok(s2) THEN Res(s2, FALSE)
            ELSE IF BorrowedMut(s2, b) THEN Res(Panic(s2, "BorrowError"), FALSE)
            ELSE Restore(ValueKind_eq([s2 EXCEPT !.bref = @ \cup {b}],
                                      s2.heap[a].k, s2.heap[b].k))
        Second(s1) ==
            IF ~Ok(s1) THEN Res(s1, FALSE)
            ELSE IF BorrowedMut(s1, a) THEN Res(Panic(s1, "BorrowError"), FALSE)
            ELSE Compare(ValueInternal_normalize_whnf([s1 EXCEPT !.bref = @ \cup {a}], b))
    IN  Second(ValueInternal_normalize_whnf(st, a))

\* impl PartialEq for Value: *self.kind() == *other.kind(), both Refs alive
\* during the comparison
Value_eq(st, a, b) ==
    LET Restore(r) ==
            IF ~Ok(r.st) THEN r ELSE Res([r.st EXCEPT !.bref = st.bref], r.res)
        Compare(s2) ==
            IF ~Ok(s2) THEN Res(s2, FALSE)
            ELSE IF BorrowedMut(s2, b) THEN Res(Panic(s2, "BorrowError"), FALSE)
            ELSE Restore(ValueKind_eq([s2 EXCEPT !.bref = @ \cup {b}],
                                      s2.heap[a].k, s2.heap[b].k))
        Second(s1) ==
            IF ~Ok(s1) THEN Res(s1, FALSE)
            ELSE IF BorrowedMut(s1, a) THEN Res(Panic(s1, "BorrowError"), FALSE)
            ELSE Compare(ValueInternal_normalize_whnf([s1 EXCEPT !.bref = @ \cup {a}], b))
    IN  Second(ValueInternal_normalize_whnf(st, a))

----------------------------------------------------------------------------
(* Back to a typed expression: Value::to_tyexpr *)

\* A TyExpr built by to_tyexpr: TyExpr::new(kind, ty, span)
TyExpr_new(tag, sub, n, subs, ty, span) ==
    [tag |-> tag, sub |-> sub, n |-> n, subs |-> subs, ty |-> ty, span |-> span]

NoTyExpr == TyExpr_new("None", "", 0, <<>>, NoValue, Artificial)

\* The cell standing for a new Value::from_const(Const::Type)
RECURSIVE Value_to_tyexpr(_, _, _)
RECURSIVE MapToTyexpr(_, _, _)
RECURSIVE ChunksToTyexpr(_, _, _)

Out(st, t) == [st |-> st, tye |-> t]

\* v.to_tyexpr(venv) over a sequence of Option<Value>, in order
MapToTyexpr(st, vs, size) ==
    LET Cons(r) ==
            LET Join(m) == [st |-> m.st, tyes |-> <<r.tye>> \o m.tyes]
            IN  Join(MapToTyexpr(r.st, Tail(vs), size))
    IN  IF vs = <<>> \/ ~Ok(st) THEN [st |-> st, tyes |-> <<>>]
        ELSE Cons(IF Head(vs) = NoValue THEN Out(st, NoTyExpr)
                  ELSE Value_to_tyexpr(st, Head(vs), size))

\* t.map_ref(|v| v.to_tyexpr(venv)) over the chunks of a text literal
ChunksToTyexpr(st, chs, size) ==
    LET Cons(r) ==
            LET Join(m) == [st |-> m.st, tyes |-> <<r.tye>> \o m.tyes]
            IN  Join(ChunksToTyexpr(r.st, Tail(chs), size))
    IN  IF chs = <<>> \/ ~Ok(st) THEN [st |-> st, tyes |-> <<>>]
        ELSE Cons(IF Head(chs).isText
                  THEN Out(st, TyExpr_new("Text", "", Len(Head(chs).s), <<>>,
                                          NoValue, Artificial))
                  ELSE Value_to_tyexpr(st, Head(chs).v, size))

\* Closure::to_tyexpr: apply to the variable of the next level, convert the result
Closure_to_tyexpr(st, clo, size) ==
    LET Convert(s1) == Value_to_tyexpr(s1, NewId(s1), size + 1)
    IN  Convert(Closure_apply_var(st, clo, KVar("bound", size)))

TypeCell == 3

\* An EmptyListLit node that holds the converted element type as it is
EmptyListLit_to_tyexpr_element(m) ==
    TyExpr_new("EmptyListLit", "", 0, m, NoValue, Artificial)

\* ValueKind::EmptyListLit(n) => ExprKind::EmptyListLit(`List n` : Type)
EmptyListLit_to_tyexpr(m) ==
    TyExpr_new("EmptyListLit", "", 0,
               <<TyExpr_new("App", "", 0,
                            <<TyExpr_new("Builtin", "List", 0, <<>>, NoValue, Artificial)>> \o m,
                            TypeCell, Artificial)>>,
               NoValue, Artificial)

\* The expression built from the kind k of cell c and its converted sub-values
ToTyexprKind(k, c, m, body) ==
    LET E(tag, sub, n, subs) == TyExpr_new(tag, sub, n, subs, NoValue, Artificial)
        T(tag, subs, ty) == TyExpr_new(tag, "", 0, subs, ty, Artificial)
        last2 == SubSeq(k.vals, Len(k.vals) - 1, Len(k.vals))
    IN  CASE k.tag = "Var" -> E("Var", k.sub, k.n, <<>>)
          [] k.tag = "LamClosure" -> E("Lam", k.sub, 0, m \o <<body>>)
          [] k.tag = "PiClosure" -> E("Pi", k.sub, 0, m \o <<body>>)
          [] k.tag = "EmptyOptionalLit" ->
                E("App", "", 0, <<E("Builtin", "OptionalNone", 0, <<>>)>> \o m)
          [] k.tag = "NEOptionalLit" -> E("SomeLit", "", 0, m)
          [] k.tag = "EmptyListLit" -> EmptyListLit_to_tyexpr(m)
          [] k.tag = "UnionConstructor" ->
                E("Field", k.sub, 0, <<T("UnionType", m, k.vals[Len(k.vals)])>>)
          [] k.tag = "UnionLit" ->
                E("App", "", 0,
                  <<T("Field", <<T("UnionType", Tail(m), last2[1])>>, last2[2]), Head(m)>>)
          [] k.tag = "Equivalence" -> E("BinOp", "Equivalence", 0, m)
          [] k.tag = "PartialExpr" -> E(k.sub, "", k.n, m)
          [] OTHER -> E(k.tag, k.sub, k.n, m)

\* Value::to_tyexpr: the Ref from kind() is alive while the sub-values convert
Value_to_tyexpr(st, c, size) ==
    LET Convert(s1) ==
            IF ~Ok(s1) THEN Out(s1, NoTyExpr)
            ELSE IF BorrowedMut(s1, c) THEN Out(Panic(s1, "BorrowError"), NoTyExpr)
            ELSE
            LET k  == s1.heap[c].k
                s2 == [s1 EXCEPT !.bref = @ \cup {c}]
                vs == CASE k.tag = "UnionConstructor" -> SubSeq(k.vals, 1, Len(k.vals) - 1)
                        [] k.tag = "UnionLit" ->
                              SubSeq(k.vals, 2, Len(k.vals) - 2) \o <<k.vals[1]>>
                        [] OTHER -> k.vals
                Finish(m, b) ==
                    IF ~Ok(b.st) THEN Out(b.st, NoTyExpr)
                    ELSE Out([b.st EXCEPT !.bref = st.bref],
                             [ToTyexprKind(k, c, m.tyes, b.tye)
                                 EXCEPT !.ty = s1.heap[c].ty, !.span = s1.heap[c].span])
                Body(m) ==
                    Finish(m, IF k.tag \in {"LamClosure", "PiClosure"} /\ Ok(m.st)
                              THEN Closure_to_tyexpr(m.st, k.clo, size)
                              ELSE Out(m.st, NoTyExpr))
                Reorder(m0) ==
                    IF k.tag = "UnionLit" /\ Ok(m0.st)
                    THEN [st |-> m0.st,
                          tyes |-> <<m0.tyes[Len(m0.tyes)]>>
                                       \o SubSeq(m0.tyes, 1, Len(m0.tyes) - 1)]
                    ELSE m0
            IN  Body(IF k.tag = "TextLit" THEN ChunksToTyexpr(s2, k.chunks, size)
                     ELSE Reorder(MapToTyexpr(s2, vs, size)))
    IN  Convert(ValueInternal_normalize_whnf(st, c))

----------------------------------------------------------------------------
(* The Value state machine: the caller builds Values and works on them *)

\* The latest call: the operation, the cell it was called on, and what it
\* returned (a bool or the Ok of a Result, a TyExpr)
Last(op, a, ok, out) == [op |-> op, a |-> a, ok |-> ok, out |-> out]

\* The cells the caller owns a handle of
Owned == {c \in DOMAIN heap : handles[c] > 0}

Start == St(heap, handles, urefs, fresh)

RECURSIVE SumSeq(_)
SumSeq(s) == IF s = <<>> THEN 0 ELSE Head(s) + SumSeq(Tail(s))

\* The handles and Refs the caller holds
Held == SumSeq(handles) + SumSeq(urefs)

\* The least length of an environment the expression can be evaluated under
Need(body) ==
    CASE body \in {"var0", "record", "annot", "piconst", "assert"} -> 1
      [] body = "var1" -> 2
      [] OTHER -> 0

\* Rc drops a cell when its last owner goes: the cells an operation made and
\* left unreachable from the caller's handles hd are freed
RECURSIVE Trim(_, _)
Trim(h, keep) ==
    IF h # <<>> /\ Len(h) \notin keep THEN Trim(SubSeq(h, 1, Len(h) - 1), keep) ELSE h

Freed(st, hd) ==
    Trim(st.heap, ReachFrom(st.heap, {c \in DOMAIN st.heap : hd[c] > 0}))

\* The outcome of an operation becomes the next state; a panic keeps the heap
\* as the unwinding found it
Commit(st, hd, l) ==
    /\ Len(st.heap) <= MaxCells
    /\ st.fresh <= MaxFresh
    /\ heap' = IF Ok(st) THEN Freed(st, hd) ELSE st.heap
    /\ handles' = hd
    /\ panic' = st.panic
    /\ fresh' = st.fresh
    /\ last' = l
    /\ UNCHANGED <<input, result, calls>>

\* A constructor hands the caller one handle of the cell it made
Construct(st, l) ==
    /\ ~built
    /\ built' = TRUE
    /\ Len(st.heap) <= MaxCells
    /\ Commit(st, [handles EXCEPT ![NewId(st)] = 1], l)
    /\ UNCHANGED <<urefs, texts>>

ValueInit ==
    /\ built = FALSE
    /\ heap = Value_from_const(St(<<>>, <<>>, <<>>, 0), "Type").heap
    /\ handles = [c \in CellIds |-> IF c = TypeCell THEN 1 ELSE 0]
    /\ urefs = [c \in CellIds |-> 0]
    /\ panic = "none"
    /\ fresh = 0
    /\ last = Last("init", 0, TRUE, NoTyExpr)
    /\ texts = <<>>
    /\ input = <<>>
    /\ result = <<>>
    /\ calls = <<>>

\* The expressions the caller makes thunks of
ThunkBodies == {"sort", "natural", "var0", "record", "annot", "pi"}

NewThunk ==
    /\ panic = "none"
    /\ \E body \in ThunkBodies : \E env \in [1..Need(body) -> Owned] :
          Construct(Value_new_thunk(Start, env, body),
                    Last("new_thunk", 0, TRUE, NoTyExpr))

\* A sub-Value given to a constructor: the owned Value a, or (inline) a thunk
\* made in place and moved into the kind
Operand(st, a, inline) ==
    LET Made(s1) == [st |-> s1, v |-> NewId(s1)]
    IN  IF inline THEN Made(Value_new_thunk(st, <<>>, "natural"))
        ELSE [st |-> st, v |-> a]

\* The kinds the caller builds: constants, and kinds over the Values a and b
ConstKinds == {KConst("Sort"), KConst("Type")}

KindsOf(a, b) ==
    { Kind("NEListLit", "", 0, <<a, b>>, NoClosure),
      Kind("EmptyListLit", "", 0, <<a>>, NoClosure),
      Kind("UnionConstructor", "A", 0, <<a, NoValue, b>>, NoClosure),
      Kind("UnionLit", "A", 0, <<a, a, NoValue, b, b>>, NoClosure),
      Kind("PiClosure", "x", 0, <<a>>,
           [ctag |-> "Closure", arg_ty |-> b, env |-> <<>>, body |-> "var0"]),
      Kind("LamClosure", "x", 0, <<a>>,
           [ctag |-> "ConstantClosure", arg_ty |-> NoValue, env |-> <<b>>, body |-> "var0"]) }

\* Value::from_kind_and_type(v, t): the sub-Values of v are the owned Value a
\* or thunks made in place, two of them or one shared
FromKindAndType ==
    /\ panic = "none"
    /\ \E a \in Owned, t \in Owned :
          \/ \E v \in ConstKinds :
                Construct(Value_from_kind_and_type(Start, v, t),
                          Last("from_kind_and_type", 0, TRUE, NoTyExpr))
          \/ \E ia \in BOOLEAN, ib \in BOOLEAN, share \in BOOLEAN :
                LET oa == Operand(Start, a, ia)
                    ob == IF share THEN oa ELSE Operand(oa.st, a, ib)
                IN  \E v \in KindsOf(oa.v, ob.v) :
                       Construct(Value_from_kind_and_type(ob.st, v, t),
                                 Last("from_kind_and_type", oa.v, TRUE, NoTyExpr))

\* The partially normalised expressions the caller builds from the Value a
ExprsOf(a) ==
    { Kind("Const", "Sort", 0, <<>>, NoClosure),
      Kind("Annot", "", 0, <<a, a>>, NoClosure),
      Kind("RecordType", "", 0, <<a>>, NoClosure),
      Kind("Assert", "", 0, <<a>>, NoClosure) }

FromPartialExpr ==
    /\ panic = "none"
    /\ \E a \in Owned, t \in Owned, ia \in BOOLEAN :
          LET oa == Operand(Start, a, ia)
          IN  \E e \in ExprsOf(oa.v) :
                 Construct(Value_from_partial_expr(oa.st, e, t),
                           Last("from_partial_expr", oa.v, TRUE, NoTyExpr))

FromConst ==
    /\ panic = "none"
    /\ \E c \in {"Sort", "Kind", "Type"} :
          Construct(Value_from_const(Start, c),
                    Last("from_const", 0, TRUE, NoTyExpr))

\* value.clone() of an owned Value or of a sub-Value of an owned WHNF cell
CloneValue ==
    /\ panic = "none"
    /\ Held < MaxHeld
    /\ \E p \in Owned :
       \E c \in {p} \cup (IF heap[p].form = "WHNF"
                           THEN SeqToSet(heap[p].k.vals) \ {NoValue} ELSE {}) :
          /\ handles' = [handles EXCEPT ![c] = @ + 1]
          /\ last' = Last("clone", c, TRUE, NoTyExpr)
          /\ UNCHANGED <<built, heap, urefs, panic, fresh, others>>

NormalizeWhnf ==
    /\ panic = "none"
    /\ \E c \in Owned :
          /\ Commit(Value_normalize_whnf(Start, c), handles,
                    Last("normalize_whnf", c, TRUE, NoTyExpr))
          /\ UNCHANGED <<built, urefs, texts>>

NormalizeNf ==
    /\ panic = "none"
    /\ \E c \in Owned :
          /\ Commit(ValueInternal_normalize_nf(Start, c), handles,
                    Last("normalize_nf", c, TRUE, NoTyExpr))
          /\ UNCHANGED <<built, urefs, texts>>

\* normalize_mut takes &mut self: no Ref borrows from that handle
NormalizeMut ==
    /\ panic = "none"
    /\ \E c \in Owned :
          /\ urefs[c] > 0 => handles[c] >= 2
          /\ Commit(Value_normalize_mut(Start, c), handles,
                    Last("normalize_mut", c, TRUE, NoTyExpr))
          /\ UNCHANGED <<built, urefs, texts>>

\* Value::kind(): the Ref returned stays with the caller
TakeKind ==
    /\ panic = "none"
    /\ Held < MaxHeld
    /\ \E c \in Owned :
          LET Borrow(s1) ==
                  IF Ok(s1) /\ BorrowedMut(s1, c) THEN Panic(s1, "BorrowError")
                  ELSE IF Ok(s1) /\ s1.heap[c].form # "WHNF" THEN Panic(s1, "unreachable")
                  ELSE s1
              Keep(s2) ==
                  /\ Commit(s2, handles, Last("kind", c, TRUE, NoTyExpr))
                  /\ urefs' = IF Ok(s2) THEN [urefs EXCEPT ![c] = @ + 1] ELSE urefs
                  /\ UNCHANGED <<built, texts>>
          IN  Keep(Borrow(Value_normalize_whnf(Start, c)))

\* drop(ref)
DropRef ==
    /\ panic = "none"
    /\ \E c \in DOMAIN heap :
          /\ urefs[c] > 0
          /\ urefs' = [urefs EXCEPT ![c] = @ - 1]
          /\ last' = Last("drop_ref", c, TRUE, NoTyExpr)
          /\ UNCHANGED <<built, heap, handles, panic, fresh, others>>

Equal ==
    /\ panic = "none"
    /\ \E a \in Owned, b \in Owned :
          LET Return(r) ==
                  /\ Commit(r.st, handles, Last("eq", a, r.res, NoTyExpr))
                  /\ UNCHANGED <<built, urefs, texts>>
          IN  Return(Value_eq(Start, a, b))

ToTyexpr ==
    /\ panic = "none"
    /\ \E c \in Owned :
          LET Return(r) ==
                  /\ Commit(r.st, handles, Last("to_tyexpr", c, TRUE, r.tye))
                  /\ UNCHANGED <<built, urefs, texts>>
          IN  Return(Value_to_tyexpr(Start, c, 0))

\* closure.remove_binder() on the closure of an owned PiClosure or LamClosure
RemoveBinder ==
    /\ panic = "none"
    /\ Held < MaxHeld
    /\ \E c \in Owned :
          LET Return(r) ==
                  /\ Len(r.st.heap) <= MaxCells
                  /\ Commit(r.st, [handles EXCEPT ![r.value] = 1],
                            Last("remove_binder", c, r.ok, NoTyExpr))
                  /\ UNCHANGED <<built, urefs, texts>>
          IN  /\ heap[c].form = "WHNF"
              /\ heap[c].k.tag \in {"PiClosure", "LamClosure"}
              /\ Return(Closure_remove_binder(Start, heap[c].k.clo))

\* Closure::new(arg_ty, &env, body) and Closure::new_constant(&env, body) over
\* the Value b
ClosuresOf(b) ==
    { [ctag |-> "Closure", arg_ty |-> b, env |-> <<>>, body |-> "var0"],
      [ctag |-> "Closure", arg_ty |-> b, env |-> <<b>>, body |-> "var1"],
      [ctag |-> "ConstantClosure", arg_ty |-> NoValue, env |-> <<b>>, body |-> "var0"],
      [ctag |-> "Closure", arg_ty |-> b, env |-> <<>>, body |-> "natural"],
      [ctag |-> "ConstantClosure", arg_ty |-> NoValue, env |-> <<>>, body |-> "natural"] }

\* c1 == c2 on two closures the caller made over an owned Value
ClosureEq ==
    /\ panic = "none"
    /\ \E b \in Owned :
       \E c1 \in ClosuresOf(b), c2 \in ClosuresOf(b) :
          LET Return(r) ==
                  /\ Commit(r.st, handles, Last("closure_eq", b, r.res, NoTyExpr))
                  /\ UNCHANGED <<built, urefs, texts>>
          IN  Return(Closure_eq(Start, c1, c2))

\* The closures of the binders the caller holds
HeldClosures ==
    {heap[c].k.clo : c \in {d \in Owned : /\ heap[d].form = "WHNF"
                                          /\ heap[d].k.tag \in {"PiClosure", "LamClosure"}}}

\* c.apply(v) and c.apply_var(NzVar::fresh()) on the closure of a binder the
\* caller holds, once the Value is built; the caller keeps the Value returned
ClosureApply ==
    /\ panic = "none"
    /\ built
    /\ Held < MaxHeld
    /\ \E v \in Owned, var \in BOOLEAN :
       \E c \in HeldClosures :
          LET Return(r) ==
                  /\ Commit(r, [handles EXCEPT ![NewId(r)] = 1],
                            Last(IF var THEN "apply_var" ELSE "apply", NewId(r),
                                 c.ctag = "ConstantClosure", NoTyExpr))
                  /\ UNCHANGED <<built, urefs, texts>>
          IN  Return(IF var
                     THEN Closure_apply_var(TakeFresh(Start), c, NzVar_fresh(Start))
                     ELSE Closure_apply(Start, c, v))

\* ValueInternal::get_type: Ok(&ty) of a stored type, else the Sort error
ValueInternal_get_type(st, c) ==
    IF st.heap[c].ty # NoValue
    THEN [st |-> st, ok |-> TRUE, value |-> st.heap[c].ty, err |-> "none"]
    ELSE [st |-> st, ok |-> FALSE, value |-> NoValue, err |-> "Sort"]

\* A get_type that looks at the kind first
Value_get_type_forcing(st, c) ==
    ValueInternal_get_type(ValueInternal_normalize_whnf(st, c), c)

\* Value::get_type: Ok(self.0.get_type()?.clone())
Value_get_type(st, c) ==
    ValueInternal_get_type(st, c)

\* v.get_type(): the caller keeps the Value returned
GetType ==
    /\ panic = "none"
    /\ Held < MaxHeld
    /\ \E c \in Owned :
          LET Return(r) ==
                  /\ Commit(r.st,
                            IF r.ok THEN [handles EXCEPT ![r.value] = @ + 1] ELSE handles,
                            Last("get_type", c, r.ok, NoTyExpr))
                  /\ UNCHANGED <<built, urefs, texts>>
          IN  Return(Value_get_type(Start, c))

\* v.to_whnf_check_type(&ty) with a Value the caller holds as the expected
\* type; `ok` notes whether ty equals the type v has
ToWhnfCheckType ==
    /\ panic = "none"
    /\ \E c \in Owned, ty \in Owned :
          LET Same(m) ==
                  LET Return(r) ==
                          /\ Commit(r.st, handles,
                                    Last("to_whnf_check_type", c, m.res, NoTyExpr))
                          /\ UNCHANGED <<built, urefs, texts>>
                  IN  Return(Value_to_whnf_check_type(Start, c, ty))
          IN  Same(IF heap[c].ty = NoValue THEN Res(Start, FALSE)
                   ELSE Value_eq(Start, ty, heap[c].ty))

\* The callers that build Values, force them and ask for their types
TypeNext ==
    \/ NewThunk
    \/ FromKindAndType
    \/ FromPartialExpr
    \/ FromConst
    \/ NormalizeWhnf
    \/ GetType
    \/ ToWhnfCheckType

TypeSpec == ValueInit /\ [][TypeNext]_vars

\* apply_any(f, a, ty): a LamClosure applies its closure and forces the body;
\* any other function is left as the application of f to a
apply_any(st, f, a, ty) ==
    LET Kinded(s1) ==
            IF ~Ok(s1) THEN Ret(s1, NoKind)
            ELSE IF s1.heap[f].k.tag = "LamClosure"
            THEN LET Forced(s2) == Value_to_whnf_check_type(s2, NewId(s2), ty)
                 IN  Forced(Closure_apply(s1, s1.heap[f].k.clo, a))
            ELSE Ret(s1, Kind("App", "", 0, <<f, a>>, NoClosure))
    IN  Kinded(Value_normalize_whnf(st, f))

\* A Value::app that types the result by the annotation of the Pi
Value_app_annot(st, f, v) ==
    LET Typed(g) ==
            LET Whnf(s1) ==
                    LET Applied(r) ==
                            IF ~Ok(r.st) THEN r.st
                            ELSE Value_from_kind_and_type(r.st, r.kind,
                                                          s1.heap[g.value].k.vals[1])
                    IN  IF ~Ok(s1) THEN s1
                        ELSE IF s1.heap[g.value].k.tag # "PiClosure"
                        THEN Panic(s1, "unreachable")
                        ELSE Applied(apply_any(s1, f, v, s1.heap[g.value].k.vals[1]))
            IN  IF ~g.ok THEN Panic(g.st, "expect")
                ELSE Whnf(Value_normalize_whnf(g.st, g.value))
    IN  Typed(Value_get_type(st, f))

\* Value::app: the new cell is the last of the heap, its type the one before
\* the cells apply_any made
Value_app(st, f, v) ==
    LET Typed(g) ==
            LET Whnf(s1) ==
                    LET Body(s2) ==
                            LET Applied(r) ==
                                    IF ~Ok(r.st) THEN r.st
                                    ELSE Value_from_kind_and_type(r.st, r.kind, NewId(s2))
                            IN  Applied(apply_any(s2, f, v, NewId(s2)))
                    IN  IF ~Ok(s1) THEN s1
                        ELSE IF s1.heap[g.value].k.tag # "PiClosure"
                        THEN Panic(s1, "unreachable")
                        ELSE Body(Closure_apply(
                                      Value_check_type(s1, v, s1.heap[g.value].k.vals[1]),
                                      s1.heap[g.value].k.clo, v))
            IN  IF ~g.ok THEN Panic(g.st, "expect")
                ELSE Whnf(Value_normalize_whnf(g.st, g.value))
    IN  Typed(Value_get_type(st, f))

\* Value::from_kind_and_type(v, t) once more: a function or a constant typed
\* by a Value the caller holds
FromKindAndTypeOf ==
    /\ panic = "none"
    /\ built
    /\ Held < MaxHeld
    /\ \E a \in Owned, t \in Owned :
       \E v \in {k \in KindsOf(a, a) : k.tag = "LamClosure"} \cup {KConst("Type")} :
          LET Return(s1) ==
                  /\ Commit(s1, [handles EXCEPT ![NewId(s1)] = 1],
                            Last("from_kind_and_type", a, TRUE, NoTyExpr))
                  /\ UNCHANGED <<built, urefs, texts>>
          IN  Return(Value_from_kind_and_type(Start, v, t))

\* f.app(v) on Values the caller holds; the caller keeps the Value returned
App ==
    /\ panic = "none"
    /\ built
    /\ Held <= MaxHeld
    /\ \E f \in Owned, v \in Owned :
          LET Return(r) ==
                  /\ Commit(r, IF Ok(r) THEN [handles EXCEPT ![NewId(r)] = 1] ELSE handles,
                            Last("app", f, Ok(r), NoTyExpr))
                  /\ UNCHANGED <<built, urefs, texts>>
          IN  Return(Value_app(Start, f, v))

\* The callers that build functions and apply them
AppNext ==
    \/ NewThunk
    \/ FromKindAndType
    \/ FromConst
    \/ FromKindAndTypeOf
    \/ App

AppSpec == ValueInit /\ [][AppNext]_vars

\* The callers that build Values, share them and normalise them
NormalNext ==
    \/ NewThunk
    \/ FromKindAndType
    \/ FromPartialExpr
    \/ FromConst
    \/ CloneValue
    \/ TakeKind
    \/ NormalizeMut
    \/ NormalizeNf

NormalSpec == ValueInit /\ [][NormalNext]_vars

\* The callers that build Values and work on closures
ClosureNext ==
    \/ NewThunk
    \/ FromKindAndType
    \/ FromPartialExpr
    \/ FromConst
    \/ ClosureEq
    \/ ClosureApply

ClosureSpec == ValueInit /\ [][ClosureNext]_vars

ValueNext ==
    \/ NewThunk
    \/ FromKindAndType
    \/ FromPartialExpr
    \/ FromConst
    \/ CloneValue
    \/ NormalizeWhnf
    \/ NormalizeNf
    \/ NormalizeMut
    \/ TakeKind
    \/ DropRef
    \/ Equal
    \/ ToTyexpr
    \/ RemoveBinder

Spec == ValueInit /\ [][ValueNext]_vars

----------------------------------------------------------------------------
(* Properties of the Value cells *)

\* The Values a ValueKind holds: its sub-Values, the argument type of its
\* closure, the interpolated Values of its text
KindRefs(k) ==
    SeqToSet(NonZero(k.vals))
        \cup (IF k.clo.ctag = "Closure" THEN {k.clo.arg_ty} ELSE {})
        \cup {k.chunks[i].v : i \in {j \in DOMAIN k.chunks : ~k.chunks[j].isText}}

\* Every Value contained in the kinds of the cells cs, recursively
RECURSIVE Contained(_, _)
Contained(h, cs) ==
    LET more == UNION {KindRefs(h[c].k) : c \in cs} \ cs
    IN  IF more = {} THEN cs ELSE Contained(h, cs \cup more)

\* The cells full normalisation visits from the cells cs
RECURSIVE Visited(_, _)
Visited(h, cs) ==
    LET more == UNION {IF h[c].form = "WHNF"
                       THEN SeqToSet(NormalizeMutTargets(h[c].k)) ELSE {} : c \in cs} \ cs
    IN  IF more = {} THEN cs ELSE Visited(h, cs \cup more)

\* 0: not yet WHNF; 1: WHNF; 2: WHNF, and so is every cell full normalisation visits
Stage(h, c) ==
    IF h[c].form # "WHNF" THEN 0
    ELSE IF \A x \in Visited(h, {c}) : h[x].form = "WHNF" THEN 2
    ELSE 1

Reads == {"normalize_whnf", "kind", "normalize_nf", "normalize_mut", "eq", "to_tyexpr"}

\* C2: Thunk::eval runs at most once on a cell, whatever handles it is read
\* through, and a read that returns leaves the shared cell in WHNF, for every
\* handle to see.
C2_EvalOnce ==
    /\ \A c \in DOMAIN heap : heap[c].nev <= 1
    /\ (last.op \in Reads /\ panic = "none") => heap[last.a].form = "WHNF"

\* A thunk the caller holds two handles of was forced once and read again
C2_Witness ==
    /\ last.op \in Reads
    /\ panic = "none"
    /\ handles[last.a] >= 2
    /\ heap[last.a].nev = 1

\* C3: no operation ends in a RefCell borrow conflict.
C3_NoBorrowConflict == panic \notin {"BorrowError", "BorrowMutError"}

\* C4: normalize_whnf on a cell already in WHNF changes nothing (form, type
\* and span of every cell), and normalize_whnf twice leaves what
\* normalize_whnf once leaves.
C4_WhnfIdempotent ==
    \A c \in DOMAIN heap :
        LET Twice(s1) ==
                LET Same(s2) == Ok(s1) => s2 = s1
                IN  /\ heap[c].form = "WHNF" => s1 = Start
                    /\ Ok(s1) => s1.heap[c].ty = heap[c].ty /\ s1.heap[c].span = heap[c].span
                    /\ Same(ValueInternal_normalize_whnf(s1, c))
        IN  Twice(ValueInternal_normalize_whnf(Start, c))

\* normalize_whnf ran on a cell that was in WHNF (the universe's Type), next
\* to a thunk forced earlier
C4_Witness ==
    /\ last.op = "normalize_whnf"
    /\ last.a = TypeCell
    /\ panic = "none"
    /\ \E c \in DOMAIN heap : heap[c].nev = 1

\* C5: after normalize_nf or normalize_mut returns on a cell, every Value its
\* kind contains, recursively, is in WHNF.
C5_NfForcesAll ==
    (last.op \in {"normalize_nf", "normalize_mut"} /\ panic = "none") =>
        \A x \in Contained(heap, {last.a}) : heap[x].form = "WHNF"

\* C6: a cell in WHNF has no type exactly when its kind is Const(Sort).
C6_NoTypeIffSort ==
    \A c \in DOMAIN heap :
        heap[c].form = "WHNF" => (heap[c].ty = NoValue <=> heap[c].k = KConst("Sort"))

\* C8: remove_binder on a closure whose body is the bound variable returns Err.
C8_RemoveBinderErr ==
    (/\ last.op = "remove_binder"
     /\ heap[last.a].k.clo.ctag = "Closure"
     /\ heap[last.a].k.clo.body = "var0") => ~last.ok

----------------------------------------------------------------------------
(* Text literals: impl TextLit *)

MaxTexts == 2
MaxChunks == 2

\* TextLit::new
TextLit_new(st, elts) == squash_textlit(st, elts)

\* TextLit::interpolate
TextLit_interpolate(v) == <<Expr(v)>>

\* TextLit::from_text
TextLit_from_text(s) == <<Text(s)>>

\* TextLit::concat
TextLit_concat(st, self, other) == TextLit_new(st, self \o other)

\* TextLit::normalize_mut: Value::normalize_mut on each interpolated Value
RECURSIVE TextLit_normalize_mut(_, _)
TextLit_normalize_mut(st, self) ==
    IF self = <<>> \/ ~Ok(st) THEN st
    ELSE TextLit_normalize_mut(
             IF Head(self).isText THEN st ELSE Value_normalize_mut(st, Head(self).v),
             Tail(self))

\* How many of the chunks of the TextLits ts hold the Value c
RECURSIVE Holds(_, _)
Holds(ts, c) ==
    IF ts = <<>> THEN 0
    ELSE Len(SelectSeq(Head(ts), LAMBDA ch : ~ch.isText /\ ch.v = c)) + Holds(Tail(ts), c)

\* The owners of a cell: the caller's handles and the caller's TextLits
TextStart ==
    St(heap, [c \in DOMAIN handles |-> handles[c] + Holds(texts, c)], urefs, fresh)

\* The outcome of an operation on text literals becomes the next state
TextCommit(st, ts) ==
    /\ Len(st.heap) <= MaxCells
    /\ Len(ts) <= MaxTexts
    /\ heap' = st.heap
    /\ panic' = st.panic
    /\ texts' = IF Ok(st) THEN ts ELSE texts
    /\ UNCHANGED <<urefs, fresh, last, input, result, calls>>

\* The chunks the caller gives to TextLit::new
ChunksOf == {Text(""), Text("a")} \cup {Expr(v) : v \in Owned}

TextThunk ==
    /\ panic = "none"
    /\ ~built
    /\ built' = TRUE
    /\ \E body \in {"natural", "text"} :
          LET Own(st) ==
                  /\ TextCommit(st, texts)
                  /\ handles' = [handles EXCEPT ![NewId(st)] = 1]
          IN  Own(Value_new_thunk(TextStart, <<>>, body))

\* Value::from_kind_and_type(ValueKind::TextLit(t), ty)
TextValue ==
    /\ panic = "none"
    /\ ~built
    /\ built' = TRUE
    /\ \E i \in DOMAIN texts :
          LET Own(st) ==
                  /\ TextCommit(st, texts)
                  /\ handles' = [handles EXCEPT ![NewId(st)] = 1]
          IN  Own(Value_from_kind_and_type(TextStart, KTextLit(texts[i]), TypeCell))

TextNew ==
    /\ panic = "none"
    /\ \E n \in 0..MaxChunks : \E elts \in [1..n -> ChunksOf] :
          LET Return(r) ==
                  /\ TextCommit(r.st, Append(texts, r.chunks))
                  /\ UNCHANGED <<built, handles>>
          IN  Return(TextLit_new(TextStart, elts))

TextInterpolate ==
    /\ panic = "none"
    /\ \E v \in Owned :
          /\ TextCommit(TextStart, Append(texts, TextLit_interpolate(v)))
          /\ UNCHANGED <<built, handles>>

TextFromText ==
    /\ panic = "none"
    /\ \E s \in {"", "a"} :
          /\ TextCommit(TextStart, Append(texts, TextLit_from_text(s)))
          /\ UNCHANGED <<built, handles>>

TextConcat ==
    /\ panic = "none"
    /\ \E i \in DOMAIN texts, j \in DOMAIN texts :
          LET Return(r) ==
                  /\ TextCommit(r.st, Append(texts, r.chunks))
                  /\ UNCHANGED <<built, handles>>
          IN  Return(TextLit_concat(TextStart, texts[i], texts[j]))

TextNormalizeMut ==
    /\ panic = "none"
    /\ \E i \in DOMAIN texts :
          /\ TextCommit(TextLit_normalize_mut(TextStart, texts[i]), texts)
          /\ UNCHANGED <<built, handles>>

TextNext ==
    \/ TextThunk
    \/ TextValue
    \/ TextNew
    \/ TextInterpolate
    \/ TextFromText
    \/ TextConcat
    \/ TextNormalizeMut

TextSpec == ValueInit /\ [][TextNext]_vars

\* Two chunks next to each other are both Text
AdjacentText(t) == \E i \in 1..(Len(t) - 1) : t[i].isText /\ t[i + 1].isText

\* The Value is a TextLit, or normalises to one
IsTextLit(v) ==
    LET Is(r) == Ok(r.st) /\ r.kind.tag = "TextLit"
    IN  Is(Value_to_whnf_ignore_type(TextStart, v))

\* C7: in every TextLit made by TextLit::new, from_text, interpolate, concat
\* and normalize_mut, no two adjacent chunks are both Text and no Expr chunk
\* holds a Value that is, or normalises to, a TextLit.
C7_TextLitInvariant ==
    \A i \in DOMAIN texts :
        /\ ~AdjacentText(texts[i])
        /\ \A j \in DOMAIN texts[i] : ~texts[i][j].isText => ~IsTextLit(texts[i][j].v)

----------------------------------------------------------------------------
(* The AST builder of the parser: parser.rs *)

\* The frames the call stack holds, and the deepest nesting of an input
StackFrames == 8
MaxNest == 7
MaxChain == 3

\* A pest Pair: its rule, the text it spans, its inner pairs
Pair(rule, str, kids) == [rule |-> rule, str |-> str, kids |-> kids]

\* A node of the AST (Expr), and the other values the builder functions
\* return: a label, a number, a let binding
Node(tag, sub, n, kids) == [tag |-> tag, sub |-> sub, n |-> n, kids |-> kids]

None == Node("None", "", 0, <<>>)

\* ParseResult: Ok(value) or Err(ParseError); a panic or a stack overflow
\* ends the call with neither
POk(v) == [status |-> "Ok", val |-> v, err |-> ""]

PErr(msg) == [status |-> "Err", val |-> None, err |-> msg]

PDie(how, what) == [status |-> how, val |-> None, err |-> what]

custom_parse_error(pair, msg) == PErr(msg)

\* One element of a match_children! pattern: x: ty, x?: ty, x*: ty
P(ty) == [ty |-> ty, mode |-> "one"]

O(ty) == [ty |-> ty, mode |-> "opt"]

S(ty) == [ty |-> ty, mode |-> "star"]

Alt(pat, body, tag) == [pat |-> pat, body |-> body, tag |-> tag]

\* Rule::x_expression => binop!(Expr::X)
binop(f) == <<Alt(<<P("expression"), S("expression")>>, "binop", f)>>

BinopRules ==
    [ annotated_expression     |-> "Annot",
      import_alt_expression    |-> "ImportAlt",
      or_expression            |-> "BoolOr",
      plus_expression          |-> "NaturalPlus",
      text_append_expression   |-> "TextAppend",
      list_append_expression   |-> "ListAppend",
      and_expression           |-> "BoolAnd",
      combine_expression       |-> "Combine",
      prefer_expression        |-> "Prefer",
      combine_types_expression |-> "CombineTypes",
      times_expression         |-> "NaturalTimes",
      equal_expression         |-> "BoolEQ",
      not_equal_expression     |-> "BoolNE",
      application_expression   |-> "App" ]

\* The rules `expression` matches the children of, with their patterns
ExprRules ==
    [ identifier_raw |-> <<Alt(<<P("str"), O("natural")>>, "identifier", "")>>,
      lambda_expression |->
          <<Alt(<<P("str"), P("expression"), P("expression")>>, "node", "Lam")>>,
      ifthenelse_expression |->
          <<Alt(<<P("expression"), P("expression"), P("expression")>>, "node", "BoolIf")>>,
      let_expression |->
          <<Alt(<<S("let_binding"), P("expression")>>, "let", "Let")>>,
      forall_expression |->
          <<Alt(<<P("str"), P("expression"), P("expression")>>, "node", "Pi")>>,
      arrow_expression |->
          <<Alt(<<P("expression"), P("expression")>>, "arrow", "Pi")>>,
      merge_expression |->
          <<Alt(<<P("expression"), P("expression"), O("expression")>>, "node", "Merge")>>,
      empty_collection |->
          <<Alt(<<P("str"), P("expression")>>, "empty_collection", "")>>,
      non_empty_optional |->
          <<Alt(<<P("expression"), P("str"), P("expression")>>, "non_empty_optional", "")>>,
      selector_expression_raw |->
          <<Alt(<<P("expression"), S("str")>>, "field", "Field")>>,
      union_type_or_literal |->
          <<Alt(<<P("empty_union_type")>>, "union_empty", ""),
            Alt(<<P("non_empty_union_type_or_literal")>>, "union", "")>>,
      non_empty_list_literal_raw |->
          <<Alt(<<S("expression")>>, "node", "ListLit")>> ]

\* The builder functions that match the children of their pair
NamedRules ==
    [ final_expression |-> <<Alt(<<P("expression"), P("eoi")>>, "first", "")>>,
      let_binding |-> <<Alt(<<P("str"), O("expression"), P("expression")>>, "node", "let_binding")>>,
      union_type_entry |-> <<Alt(<<P("str"), P("expression")>>, "node", "entry")>>,
      union_type_entries |-> <<Alt(<<S("union_type_entry")>>, "entries", "")>>,
      non_empty_union_type_or_literal |->
          <<Alt(<<P("str"), P("expression"), P("union_type_entries")>>, "union_first", ""),
            Alt(<<P("str"), P("expression"), P("non_empty_union_type_or_literal")>>,
                "union_rest", ""),
            Alt(<<P("str"), P("expression")>>, "union_last", "")>> ]

\* The builder functions declared with named_rule!: they match their own rule
NamedRuleTys ==
    {"let_binding", "union_type_entry", "union_type_entries",
     "non_empty_union_type_or_literal", "empty_union_type"}

\* match_iter!: the children bound to the elements of a pattern, those before
\* the optional or repeated element from the front, those after it from the
\* back; or NotEnoughItems, TooManyItems
MatchIter(kids, pat) ==
    LET n  == Len(kids)
        vs == {i \in DOMAIN pat : pat[i].mode # "one"}
        v  == IF vs = {} THEN 0 ELSE CHOOSE i \in vs : TRUE
        k1 == IF v = 0 THEN Len(pat) ELSE v - 1
        k2 == IF v = 0 THEN 0 ELSE Len(pat) - v
        caps == [i \in DOMAIN pat |->
                    IF v = 0 \/ i < v THEN <<kids[i]>>
                    ELSE IF i = v THEN SubSeq(kids, v, n - k2)
                    ELSE <<kids[n - (Len(pat) - i)]>>]
    IN  IF n < k1 + k2 THEN [err |-> "NotEnoughItems", caps |-> <<>>]
        ELSE IF v = 0 /\ n > k1 THEN [err |-> "TooManyItems", caps |-> <<>>]
        ELSE IF v # 0 /\ pat[v].mode = "opt" /\ n > k1 + k2 + 1
             THEN [err |-> "TooManyItems", caps |-> <<>>]
        ELSE [err |-> "", caps |-> caps]

\* str: the text, trimmed
Trimmed(s) ==
    CASE s = " x" -> "x"
      [] s = "List " -> "List"
      [] OTHER -> s

\* natural: str::parse::<usize> of the trimmed text
natural(pair) ==
    LET s == Trimmed(pair.str)
    IN  CASE s = "0" -> POk(Node("usize", "", 0, <<>>))
          [] s = "2" -> POk(Node("usize", "", 2, <<>>))
          [] s = "3" -> POk(Node("usize", "", 3, <<>>))
          [] s = "4" -> POk(Node("usize", "", 4, <<>>))
          [] s = "18446744073709551616" ->
                custom_parse_error(pair, "number too large to fit in target type")
          [] OTHER -> custom_parse_error(pair, "invalid digit found in string")

\* Builtin::parse
Builtins == {"Natural", "List", "Optional", "Bool"}

\* BTreeMap::insert: the entry of a label replaces the one the map had
Insert(map, l, e) == [x \in (DOMAIN map) \cup {l} |-> IF x = l THEN e ELSE map[x]]

RECURSIVE Entries(_, _)
\* for (n, e) in entries { map.insert(n, *e) }
Entries(map, entries) ==
    IF entries = <<>> THEN map
    ELSE Entries(Insert(map, Head(entries).sub, Head(entries).kids[1]), Tail(entries))

RECURSIVE FoldLeft(_, _, _)
\* rest.fold(first, |acc, e| bx(f(acc, e)))
FoldLeft(f, acc, rest) ==
    IF rest = <<>> THEN acc
    ELSE FoldLeft(f, Node(f, "", 0, <<acc, Head(rest)>>), Tail(rest))

RECURSIVE FoldField(_, _)
\* rest.fold(first, |acc, e| bx(Expr::Field(acc, e)))
FoldField(acc, rest) ==
    IF rest = <<>> THEN acc
    ELSE FoldField(Node("Field", Head(rest).sub, 0, <<acc>>), Tail(rest))

RECURSIVE FoldLet(_, _)
\* bindings.fold(final_expr, |acc, x| bx(Expr::Let(x.0, x.1, x.2, acc)))
FoldLet(acc, bindings) ==
    IF bindings = <<>> THEN acc
    ELSE FoldLet(Node("Let", Head(bindings).sub, 0, Head(bindings).kids \o <<acc>>),
                 Tail(bindings))

Flat(vals) ==
    LET Cat[i \in 0..Len(vals)] == IF i = 0 THEN <<>> ELSE Cat[i - 1] \o vals[i]
    IN  Cat[Len(vals)]

\* The body of an alternative, over the values bound to its pattern
Build(alt, vals) ==
    CASE alt.body = "first" -> POk(vals[1][1])
      [] alt.body = "node" ->
            IF alt.pat[1].ty = "str"
            THEN POk(Node(alt.tag, vals[1][1].sub, 0,
                          IF alt.tag = "let_binding"
                          THEN <<IF vals[2] = <<>> THEN None ELSE vals[2][1], vals[3][1]>>
                          ELSE Flat(Tail(vals))))
            ELSE POk(Node(alt.tag, "", 0, Flat(vals)))
      [] alt.body = "arrow" -> POk(Node("Pi", "_", 0, <<vals[1][1], vals[2][1]>>))
      [] alt.body = "binop" -> POk(FoldLeft(alt.tag, vals[1][1], vals[2]))
      [] alt.body = "field" -> POk(FoldField(vals[1][1], vals[2]))
      [] alt.body = "let" -> POk(FoldLet(vals[2][1], vals[1]))
      [] alt.body = "identifier" ->
            LET name == vals[1][1].sub
                idx  == IF vals[2] = <<>> THEN 0 ELSE vals[2][1].n
            IN  CASE name \in Builtins -> POk(Node("Builtin", name, 0, <<>>))
                  [] name = "True"  -> POk(Node("BoolLit", "true", 0, <<>>))
                  [] name = "False" -> POk(Node("BoolLit", "false", 0, <<>>))
                  [] name = "Type"  -> POk(Node("Const", "Type", 0, <<>>))
                  [] name = "Kind"  -> POk(Node("Const", "Kind", 0, <<>>))
                  [] OTHER -> POk(Node("Var", name, idx, <<>>))
      [] alt.body = "empty_collection" ->
            CASE vals[1][1].sub = "Optional" ->
                    POk(Node("OptionalLit", "Some", 0, <<vals[2][1]>>))
              [] vals[1][1].sub = "List" -> POk(Node("ListLit", "Some", 0, <<vals[2][1]>>))
              [] OTHER -> PDie("Panic", "unreachable")
      [] alt.body = "non_empty_optional" ->
            POk(Node("OptionalLit", "Some", 0, <<vals[3][1], vals[1][1]>>))
      [] alt.body = "entries" -> POk(Node("map", "", 0, Entries(<<>>, vals[1])))
      [] alt.body = "union_first" ->
            POk(Node("parts", vals[1][1].sub, 1, <<vals[2][1], vals[3][1]>>))
      [] alt.body = "union_rest" ->
            POk(Node("parts", vals[3][1].sub, vals[3][1].n,
                     <<vals[3][1].kids[1],
                       Node("map", "", 0,
                            Insert(vals[3][1].kids[2].kids, vals[1][1].sub, vals[2][1]))>>))
      [] alt.body = "union_last" ->
            POk(Node("parts", "", 0,
                     <<None, Node("map", "", 0, Insert(<<>>, vals[1][1].sub, vals[2][1]))>>))
      [] alt.body = "union_empty" -> POk(Node("Union", "", 0, <<Node("map", "", 0, <<>>)>>))
      [] alt.body = "union" ->
            IF vals[1][1].n = 1
            THEN POk(Node("UnionLit", vals[1][1].sub, 0, vals[1][1].kids))
            ELSE POk(Node("Union", "", 0, <<vals[1][1].kids[2]>>))
      [] OTHER -> PDie("Panic", "no such body")

RECURSIVE Callback(_, _, _)
RECURSIVE CallEach(_, _, _)
RECURSIVE CallPattern(_, _, _, _)
RECURSIVE MatchTyped(_, _, _, _)

\* x.map(|x| callback!(ty, x)).collect(): the values, or the first error
CallEach(ty, pairs, depth) ==
    LET Next(r) ==
            LET Join(m) ==
                    IF m.status = "Ok" THEN [m EXCEPT !.vals = <<r.val>> \o @] ELSE m
            IN  IF r.status # "Ok" THEN [status |-> r.status, vals |-> <<>>, err |-> r.err]
                ELSE Join(CallEach(ty, Tail(pairs), depth))
    IN  IF pairs = <<>> THEN [status |-> "Ok", vals |-> <<>>, err |-> ""]
        ELSE Next(Callback(ty, Head(pairs), depth))

\* match_iter_typed!(@callback ..): the callbacks of a pattern, left to right
CallPattern(pat, caps, i, depth) ==
    LET Next(r) ==
            LET Join(m) ==
                    IF m.status = "Ok" THEN [m EXCEPT !.vals = <<r.vals>> \o @] ELSE m
            IN  IF r.status # "Ok" THEN r
                ELSE Join(CallPattern(pat, caps, i + 1, depth))
    IN  IF i > Len(pat) THEN [status |-> "Ok", vals |-> <<>>, err |-> ""]
        ELSE Next(CallEach(pat[i].ty, caps[i], depth))

\* match_iter_typed!(@get_err ..) under match_children!: the alternatives in
\* order; the error of the last one that failed is the one returned, its own
\* if it came from a callback, "No match found" otherwise
MatchTyped(pair, alts, last_error, depth) ==
    LET Try(r) ==
            IF r.status = "Ok" THEN Build(Head(alts), r.vals)
            ELSE IF r.status = "Err" THEN MatchTyped(pair, Tail(alts), r.err, depth)
            ELSE PDie(r.status, r.err)
        Shape(m) ==
            IF m.err # "" THEN MatchTyped(pair, Tail(alts), "No match found", depth)
            ELSE Try(CallPattern(Head(alts).pat, m.caps, 1, depth))
    IN  IF alts = <<>> THEN custom_parse_error(pair, last_error)
        ELSE Shape(MatchIter(pair.kids, Head(alts).pat))

match_children(pair, alts, depth) == MatchTyped(pair, alts, "No match found", depth)

\* map!(natural; |n| bx(Expr::NaturalLit(n)))
NaturalLit(r) ==
    IF r.status = "Ok" THEN POk(Node("NaturalLit", "", r.val.n, <<>>)) ELSE r

\* The builder function `ty` called on a pair: one more frame on the stack
Callback(ty, pair, depth) ==
    IF depth > StackFrames THEN PDie("Abort", "stack overflow")
    ELSE CASE ty = "eoi" -> POk(None)
           [] ty = "str" -> POk(Node("str", Trimmed(pair.str), 0, <<>>))
           [] ty = "raw_str" -> POk(Node("str", pair.str, 0, <<>>))
           [] ty = "natural" -> natural(pair)
           [] ty = "expression" ->
                 CASE pair.rule = "natural_literal_raw" -> NaturalLit(natural(pair))
                   [] pair.rule \in DOMAIN BinopRules ->
                         match_children(pair, binop(BinopRules[pair.rule]), depth + 1)
                   [] pair.rule \in DOMAIN ExprRules ->
                         match_children(pair, ExprRules[pair.rule], depth + 1)
                   [] pair.rule = "empty_record_type" -> POk(Node("Record", "", 0, <<>>))
                   [] pair.rule = "empty_record_literal" ->
                         POk(Node("RecordLit", "", 0, <<>>))
                   [] OTHER -> custom_parse_error(pair, "Unexpected " \o pair.rule)
           [] ty \in NamedRuleTys ->
                 IF pair.rule # ty THEN custom_parse_error(pair, "Unexpected " \o pair.rule)
                 ELSE IF ty = "empty_union_type" THEN POk(None)
                 ELSE match_children(pair, NamedRules[ty], depth + 1)
           [] OTHER -> match_children(pair, NamedRules[ty], depth + 1)

final_expression(pair) == Callback("final_expression", pair, 1)

\* parse_expr_pest on what DhallParser::parse returned: match_iter! unwraps
parse_expr_pest(parsed) ==
    IF parsed.status # "Ok" THEN PErr(parsed.err)
    ELSE IF MatchIter(parsed.pairs, <<P("final_expression")>>).err # ""
         THEN PDie("Panic", "unwrap")
    ELSE final_expression(parsed.pairs[1])

----------------------------------------------------------------------------
(* The parser as a state machine: an input text that pest has parsed, and
   the call of parse_expr_pest on it *)

Natural_raw(s) == Pair("natural_literal_raw", s, <<>>)

Label(s) == Pair("label_raw", s, <<>>)

Ident(s) == Pair("identifier_raw", s, <<Label(s)>>)

Naturals == {Natural_raw("2"), Natural_raw("3"), Natural_raw("4")}

\* a op b, a op b op c: the operands of one operator pair
Chains == UNION {[1..n -> Naturals] : n \in 2..MaxChain}

RECURSIVE Nest(_)
\* [[ .. [2] .. ]], d brackets deep
Nest(d) ==
    IF d = 0 THEN Natural_raw("2")
    ELSE Pair("non_empty_list_literal_raw", "", <<Nest(d - 1)>>)

LetBinding(x, e) == Pair("let_binding", "", <<Label(x), e>>)

UnionEntries(es) == Pair("union_type_entries", "", es)

UnionEntry(l, e) == Pair("union_type_entry", "", <<Label(l), e>>)

NonEmptyUnion(kids) == Pair("non_empty_union_type_or_literal", "", kids)

\* The expressions a union holds: two the builder accepts, two it rejects
UnionOperands ==
    {Natural_raw("2"), Ident("Natural"),
     Natural_raw("18446744073709551616"), Pair("double_literal_raw", "1.5", <<>>)}

\* < >, < A : e >, < A = e | B : f >, < B : f | A = e >, < B : f | A : e >
Unions ==
    {Pair("union_type_or_literal", "", <<u>>) :
        u \in {Pair("empty_union_type", "", <<>>)}
            \cup {NonEmptyUnion(<<Label("A"), e>>) : e \in UnionOperands}
            \cup {NonEmptyUnion(<<Label("A"), e, UnionEntries(<<UnionEntry("B", f)>>)>>) :
                      e \in UnionOperands, f \in UnionOperands}
            \cup {NonEmptyUnion(<<Label("B"), f,
                                  NonEmptyUnion(<<Label("A"), e, UnionEntries(<<>>)>>)>>) :
                      e \in UnionOperands, f \in UnionOperands}
            \cup {NonEmptyUnion(<<Label("B"), f, NonEmptyUnion(<<Label("A"), e>>)>>) :
                      e \in UnionOperands, f \in UnionOperands}}

\* An operator token of the grammar build.rs writes: natural_plus = { "+" ~
\* whsp1 }, natural_times = { "*" }; `operator` itself is silent
Operator(tok) == Pair(tok, IF tok = "natural_plus" THEN "+ " ELSE "*", <<>>)

Application(x) == Pair("application_expression", "", <<x>>)

\* operator_expression = { application_expression ~
\*     (whsp ~ operator ~ whsp ~ application_expression)* } over three operands
OperatorExpression(xs, ops) ==
    Pair("operator_expression", "",
         <<Application(xs[1]), Operator(ops[1]), Application(xs[2]),
           Operator(ops[2]), Application(xs[3])>>)

\* a + b * c and a * b + c for every arrangement of the operands
Operators ==
    {OperatorExpression(xs, ops) :
        xs \in [1..3 -> Naturals],
        ops \in {<<"natural_plus", "natural_times">>, <<"natural_times", "natural_plus">>}}

Expressions ==
    {Pair(r, "", c) : r \in DOMAIN BinopRules, c \in Chains}
        \cup {Nest(d) : d \in 0..MaxNest}
        \cup Unions
        \cup Operators
        \cup { Ident(" x"), Ident("Natural"), Ident("True"), Ident("Type"),
               Ident("False"), Ident("Kind"), Ident("Sort"),
               Pair("identifier_raw", "x@2", <<Label("x"), Pair("natural_raw", "2", <<>>)>>),
               Natural_raw("18446744073709551616"),
               Pair("double_literal_raw", "1.5", <<>>),
               Pair("lambda_expression", "", <<Label("x"), Ident("Natural"), Ident("x")>>),
               Pair("forall_expression", "", <<Label("x"), Ident("Type"), Ident("x")>>),
               Pair("arrow_expression", "", <<Ident("Natural"), Ident("Natural")>>),
               Pair("ifthenelse_expression", "", <<Ident("True"), Natural_raw("2"), Natural_raw("3")>>),
               Pair("let_expression", "",
                    <<LetBinding("x", Natural_raw("2")), LetBinding("y", Natural_raw("3")), Ident("x")>>),
               Pair("let_expression", "",
                    <<Pair("let_binding", "", <<Label("x"), Ident("Natural"), Natural_raw("2")>>),
                      Ident("x")>>),
               Pair("merge_expression", "", <<Ident("x"), Ident("y")>>),
               Pair("merge_expression", "", <<Ident("x"), Ident("y"), Ident("Natural")>>),
               Pair("empty_collection", "", <<Pair("List_raw", "List ", <<>>), Ident("Natural")>>),
               Pair("empty_collection", "", <<Pair("Optional_raw", "Optional", <<>>), Ident("Natural")>>),
               Pair("non_empty_optional", "",
                    <<Natural_raw("2"), Pair("Optional_raw", "Optional", <<>>), Ident("Natural")>>),
               Pair("selector_expression_raw", "", <<Ident("x"), Label("a"), Label("b")>>),
               Pair("empty_record_type", "{}", <<>>),
               Pair("empty_record_literal", "{=}", <<>>),
               Pair("plus_expression", "",
                    <<Natural_raw("2"), Pair("times_expression", "", <<Natural_raw("3"), Natural_raw("4")>>)>>) }

\* What DhallParser::parse(Rule::final_expression, s) returns: one
\* final_expression pair, or its own error
Parsed(e) ==
    [status |-> "Ok", err |-> "",
     pairs |-> <<Pair("final_expression", "", <<e, Pair("EOI", "", <<>>)>>)>>]

ParserInputs ==
    {Parsed(e) : e \in Expressions}
        \cup {[status |-> "Err", err |-> "pest error", pairs |-> <<>>]}

ParserInit ==
    /\ built = FALSE
    /\ heap = Value_from_const(St(<<>>, <<>>, <<>>, 0), "Type").heap
    /\ handles = [c \in CellIds |-> IF c = TypeCell THEN 1 ELSE 0]
    /\ urefs = [c \in CellIds |-> 0]
    /\ panic = "none"
    /\ fresh = 0
    /\ last = Last("init", 0, TRUE, NoTyExpr)
    /\ texts = <<>>
    /\ input \in ParserInputs
    /\ result = <<>>
    /\ calls = <<>>

ParseExprPest ==
    /\ result = <<>>
    /\ result' = parse_expr_pest(input)
    /\ UNCHANGED <<built, heap, handles, urefs, panic, fresh, last, texts, input, calls>>

ParserNext == ParseExprPest

ParserSpec == ParserInit /\ [][ParserNext]_vars

----------------------------------------------------------------------------
(* The command line: main *)

Call(fn, ok) == [fn |-> fn, ok |-> ok]

\* The call main made last
LastCall == IF calls = <<>> THEN Call("main", TRUE) ELSE calls[Len(calls)]

\* A step of main: only the parse result, the panic and the calls change
MainStep(r, p, c) ==
    /\ result' = r
    /\ panic' = p
    /\ calls' = Append(calls, c)
    /\ UNCHANGED <<built, heap, handles, urefs, fresh, last, texts, input>>

\* let expr = match parser::parse_expr(&buffer) { Ok(e) => e, Err(e) => {
\* print_error(..); return; } }
ParseExpr ==
    /\ panic = "none"
    /\ calls = <<>>
    /\ LET Then(r) ==
               MainStep(r, IF r.status \in {"Ok", "Err"} THEN "none" ELSE r.err,
                        Call("parse_expr", r.status = "Ok"))
       IN  Then(parse_expr_pest(input))

\* imports::panic_imports(&expr): panics when the expression holds an import
PanicImports ==
    /\ panic = "none"
    /\ LastCall = Call("parse_expr", TRUE)
    /\ \E imports \in BOOLEAN :
          MainStep(result, IF imports THEN "panic_imports" ELSE "none",
                   Call("panic_imports", ~imports))

\* match typecheck::type_of(&expr) { Err(e) => { ..; return; } Ok(t) => t }
TypeOf ==
    /\ panic = "none"
    /\ LastCall = Call("panic_imports", TRUE)
    /\ \E ok \in BOOLEAN : MainStep(result, "none", Call("type_of", ok))

\* A main that goes on to normalize whatever type_of returned
Normalize_any ==
    /\ panic = "none"
    /\ LastCall.fn = "type_of"
    /\ MainStep(result, "none", Call("normalize", TRUE))

\* println!("{}", normalize(&expr))
Normalize ==
    /\ panic = "none"
    /\ LastCall = Call("type_of", TRUE)
    /\ MainStep(result, "none", Call("normalize", TRUE))

MainNext ==
    \/ ParseExpr
    \/ PanicImports
    \/ TypeOf
    \/ Normalize

MainSpec == ParserInit /\ [][MainNext]_vars

\* The operands of the chain the input is, when it is a chain of three
ChainOf(parsed) == parsed.pairs[1].kids[1]

IsChain(parsed, n) ==
    /\ parsed.status = "Ok"
    /\ ChainOf(parsed).rule \in DOMAIN BinopRules
    /\ Len(ChainOf(parsed).kids) = n
    /\ \A i \in 1..n : ChainOf(parsed).kids[i] \in Naturals

Lit(pair) == natural(pair).val.n

RightLeaning(f, a, b, c) ==
    Node(f, "", 0, <<Node("NaturalLit", "", a, <<>>),
                     Node(f, "", 0, <<Node("NaturalLit", "", b, <<>>),
                                      Node("NaturalLit", "", c, <<>>)>>)>>)

\* C9: a chain a op b op c of one operator built with binop! parses to the
\* right-leaning tree op(a, op(b, c)); 2 * 3 * 4 to
\* NaturalTimes(2, NaturalTimes(3, 4)).
C9_RightLeaning ==
    (result # <<>> /\ IsChain(input, 3)) =>
        /\ result.status = "Ok"
        /\ result.val = RightLeaning(BinopRules[ChainOf(input).rule],
                                     Lit(ChainOf(input).kids[1]),
                                     Lit(ChainOf(input).kids[2]),
                                     Lit(ChainOf(input).kids[3]))

\* C10: whatever the input, parse_expr_pest ends with Ok(AST) or
\* Err(ParseError): it does not panic and does not end the process.
C10_ErrorsReturned ==
    result # <<>> => result.status \in {"Ok", "Err"}

RECURSIVE FirstError(_, _, _)
\* The error of the earliest sub-parse that fails while the alternatives of a
\* node are tried in order; "No match found" when no sub-parse fails
FirstError(pair, alts, depth) ==
    LET Try(r) ==
            IF r.status = "Err" THEN r.err ELSE FirstError(pair, Tail(alts), depth)
        Shape(m) ==
            IF m.err # "" THEN FirstError(pair, Tail(alts), depth)
            ELSE Try(CallPattern(Head(alts).pat, m.caps, 1, depth))
    IN  IF alts = <<>> THEN "No match found"
        ELSE Shape(MatchIter(pair.kids, Head(alts).pat))

RECURSIVE PairsIn(_)
\* A pair and the pairs inside it
PairsIn(pair) == {pair} \cup UNION {PairsIn(pair.kids[i]) : i \in DOMAIN pair.kids}

AltsOf(pair) ==
    IF pair.rule \in DOMAIN ExprRules THEN ExprRules[pair.rule] ELSE NamedRules[pair.rule]

\* The builder function called on a pair of one of these rules
Returned(pair) ==
    Callback(IF pair.rule \in DOMAIN ExprRules THEN "expression" ELSE pair.rule, pair, 1)

FirstFailureAt(pair) ==
    LET Then(r) == r.status = "Err" => r.err = FirstError(pair, AltsOf(pair), 2)
    IN  Then(Returned(pair))

\* C11: when a node's children are matched against several alternatives and
\* none succeeds, the error returned is that of the earliest failing
\* sub-parse, not that of a later alternative nor "No match found". Stated
\* of the nodes whose alternatives all start with the same sub-parses, the
\* non-empty unions.
C11_FirstFailure ==
    (result # <<>> /\ input.status = "Ok") =>
        \A pair \in {q \in PairsIn(input.pairs[1]) :
                         q.rule = "non_empty_union_type_or_literal"} :
            FirstFailureAt(pair)

----------------------------------------------------------------------------
(* Properties of equality, closures and types *)

\* The same graph of cells with every span and every stored type replaced
Retyped(st) ==
    [st EXCEPT !.heap = [i \in DOMAIN @ |->
        [@[i] EXCEPT !.span = Artificial,
                     !.ty = IF @ = NoValue THEN NoValue ELSE TypeCell]]]

\* a == b agrees with b == a, with a == b after the spans and types are
\* replaced and after both cells are forced; identical kinds are equal and
\* equal kinds have one constructor
EqLaws(a, b) ==
    LET AB(rab) ==
            LET BA(rba) ==
                    LET RT(rrt) ==
                            /\ Ok(rab.st) /\ Ok(rba.st) /\ Ok(rrt.st)
                            /\ rab.res = rba.res
                            /\ rab.res = rrt.res
                            /\ a = b => rab.res
                            /\ rab.st.heap[a].form = "WHNF" /\ rab.st.heap[b].form = "WHNF"
                            /\ rab.st.heap[a].k = rab.st.heap[b].k => rab.res
                            /\ rab.res => rab.st.heap[a].k.tag = rab.st.heap[b].k.tag
                    IN  RT(Value_eq(Retyped(Start), a, b))
            IN  BA(Value_eq(Start, b, a))
    IN  AB(Value_eq(Start, a, b))

\* C12: == compares the WHNF kinds; its result does not depend on the spans,
\* on the stored types or on the forms the cells had before, and it is
\* reflexive and symmetric.
C12_Equality ==
    panic = "none" => \A a \in Owned, b \in Owned : EqLaws(a, b)

\* Two different cells of different spans, one of them a thunk before, were
\* compared and found equal
C12_Witness ==
    /\ last.op = "eq" /\ last.ok
    /\ \E a \in Owned, b \in Owned :
          /\ a # b
          /\ heap[a].span # heap[b].span
          /\ heap[a].nev = 1
          /\ EqLaws(a, b) /\ Value_eq(Start, a, b).res

\* c1 == c2 is the equality of the two values got by applying c1 and c2 to
\* one fresh variable; a closure equals itself; no kind that was in WHNF,
\* and so no closure's environment, is changed
ClosureLaws(c1, c2) ==
    LET E(r) ==
            LET A1(s1) ==
                    LET A2(s2) ==
                            LET V(rv) ==
                                    /\ Ok(r.st) /\ Ok(rv.st)
                                    /\ r.res = rv.res
                                    /\ c1 = c2 => r.res
                                    /\ \A c \in DOMAIN heap :
                                          heap[c].form = "WHNF" =>
                                              r.st.heap[c].k = heap[c].k
                            IN  V(Value_eq(s2, NewId(s1), NewId(s2)))
                    IN  A2(Closure_apply_var(s1, c2, NzVar_fresh(Start)))
            IN  A1(Closure_apply_var(TakeFresh(Start), c1, NzVar_fresh(Start)))
    IN  E(Closure_eq(Start, c1, c2))

\* A normal closure and a constant closure whose bodies evaluate to the
\* same value
SameBodies(b) ==
    { <<[ctag |-> "Closure", arg_ty |-> b, env |-> <<b>>, body |-> "var1"],
        [ctag |-> "ConstantClosure", arg_ty |-> NoValue, env |-> <<b>>, body |-> "var0"]>>,
      <<[ctag |-> "Closure", arg_ty |-> b, env |-> <<>>, body |-> "natural"],
        [ctag |-> "ConstantClosure", arg_ty |-> NoValue, env |-> <<>>, body |-> "natural"]>> }

SameBodiesEqual(p) ==
    LET E(r) == Ok(r.st) /\ r.res
    IN  E(Closure_eq(Start, p[1], p[2]))

\* C13: two closures are equal exactly when the values got by applying both
\* to one and the same fresh variable are equal; a normal closure and a
\* constant closure whose bodies evaluate to equal values are equal; the
\* comparison changes no closure's environment.
C13_ClosureEq ==
    panic = "none" =>
        \A b \in Owned :
            /\ \A c1 \in ClosuresOf(b) \cup HeldClosures, c2 \in ClosuresOf(b) :
                  ClosureLaws(c1, c2)
            /\ \A p \in SameBodies(b) : SameBodiesEqual(p)

\* Closures over a Value were compared and found equal, and a normal and a
\* constant closure over it are
C13_Witness ==
    /\ last.op = "closure_eq" /\ last.ok /\ panic = "none"
    /\ last.a \in Owned
    /\ heap[last.a].nev = 1
    /\ \A p \in SameBodies(last.a) : SameBodiesEqual(p)

\* The cell is a thunk of the body under the environment
ThunkOf(st, c, env, body) ==
    /\ st.heap[c].form = "Thunk"
    /\ st.heap[c].env = env
    /\ st.heap[c].body = body

\* apply(v1), apply(v2) and apply_var(x) of a constant closure: three thunks
\* of the body under the captured environment, equal as values
ConstantIgnores(c, v1, v2) ==
    LET A1(s1) ==
            LET A2(s2) ==
                    LET A3(s3) ==
                            LET E12(r12) ==
                                    LET E13(r13) ==
                                            /\ ThunkOf(s3, NewId(s1), c.env, c.body)
                                            /\ ThunkOf(s3, NewId(s2), c.env, c.body)
                                            /\ ThunkOf(s3, NewId(s3), c.env, c.body)
                                            /\ NewId(s3) = Len(heap) + 3
                                            /\ Ok(r12.st) /\ r12.res
                                            /\ Ok(r13.st) /\ r13.res
                                    IN  E13(Value_eq(r12.st, NewId(s1), NewId(s3)))
                            IN  E12(Value_eq(s3, NewId(s1), NewId(s2)))
                    IN  A3(Closure_apply_var(TakeFresh(s2), c, NzVar_fresh(s2)))
            IN  A2(Closure_apply(s1, c, v2))
    IN  A1(Closure_apply(Start, c, v1))

\* apply(v) and apply_var(x) of a normal closure: a thunk of the unchanged
\* body under the captured environment with the argument appended, the
\* argument of apply_var being the variable typed by the closure's arg_ty
ClosureExtends(c, v) ==
    LET A1(s1) ==
            LET A2(s2) ==
                    /\ ThunkOf(s1, NewId(s1), Append(c.env, v), c.body)
                    /\ NewId(s1) = Len(heap) + 1
                    /\ SubSeq(s2.heap, 1, Len(heap)) = heap
                    /\ ThunkOf(s2, NewId(s2), Append(c.env, NewId(s2) - 1), c.body)
                    /\ s2.heap[NewId(s2) - 1].form = "WHNF"
                    /\ s2.heap[NewId(s2) - 1].k = NzVar_fresh(s1)
                    /\ s2.heap[NewId(s2) - 1].ty = c.arg_ty
                    /\ NewId(s2) = Len(heap) + 3
            IN  A2(Closure_apply_var(TakeFresh(s1), c, NzVar_fresh(s1)))
    IN  A1(Closure_apply(Start, c, v))

\* C14: a constant closure ignores its argument: apply(v1), apply(v2) and
\* apply_var(x) evaluate the body in the captured environment as it is and
\* give equal results; a normal closure evaluates the unchanged body in the
\* captured environment extended by exactly the argument.
C14_ConstantIgnoresArgument ==
    panic = "none" =>
        \A b \in Owned : \A c \in ClosuresOf(b) \cup HeldClosures :
            \A v1 \in Owned :
                IF c.ctag = "ConstantClosure"
                THEN \A v2 \in Owned : ConstantIgnores(c, v1, v2)
                ELSE ClosureExtends(c, v1)

\* A constant closure held in a binder was applied, there are two different
\* arguments to give it, and the Value it returned is the thunk of its body
\* under its own environment
C14_Witness ==
    /\ last.op = "apply" /\ last.ok /\ panic = "none"
    /\ \E c \in HeldClosures :
          /\ c.ctag = "ConstantClosure"
          /\ c.env # <<>>
          /\ ThunkOf(Start, last.a, c.env, c.body)
          /\ \E v1 \in Owned, v2 \in Owned :
                /\ v1 # v2
                /\ ~Value_eq(Start, v1, v2).res
                /\ ConstantIgnores(c, v1, v2)

\* normalize_nf on c and, where that returned, normalize_nf on c again: the
\* second call returns too and leaves every cell as the first left it
NfTwice(c) ==
    LET Once(s1) ==
            LET Twice(s2) == Ok(s1) => (Ok(s2) /\ s2.heap = s1.heap)
            IN  Twice(ValueInternal_normalize_nf(s1, c))
    IN  Once(ValueInternal_normalize_nf(Start, c))

\* C15: normalize_nf is idempotent: on a cell that normalize_nf has already
\* normalised it changes no cell of the graph, so twice is the same as once.
C15_NfIdempotent == panic = "none" => \A c \in Owned : NfTwice(c)

\* normalize_nf returned on a cell it had to force and whose kind holds
\* Values, and a second call leaves the graph alone
C15_Witness ==
    /\ last.op = "normalize_nf" /\ panic = "none"
    /\ last.a \in Owned
    /\ heap[last.a].form = "WHNF" /\ heap[last.a].nev = 1
    /\ NormalizeMutTargets(heap[last.a].k) # <<>>
    /\ \A i \in DOMAIN NormalizeMutTargets(heap[last.a].k) :
          heap[NormalizeMutTargets(heap[last.a].k)[i]].form = "WHNF"
    /\ ValueInternal_normalize_nf(Start, last.a).heap = heap

\* kind() on c: it does not reach its unreachable!() arm, and where it
\* returns the form is WHNF and the Ref is to the kind stored there
KindReturns(c) ==
    LET Borrow(r) ==
            /\ r.st.panic # "unreachable"
            /\ Ok(r.st) => /\ r.st.heap[c].form = "WHNF"
                           /\ r.kind = r.st.heap[c].k
    IN  Borrow(Value_to_whnf_ignore_type(Start, c))

\* normalize_nf on c does not reach the unreachable!() arm of
\* Form::normalize_nf
NfReaches(c) ==
    LET Walk(s1) == s1.panic # "unreachable"
    IN  Walk(ValueInternal_normalize_nf(Start, c))

\* C16: after kind() returns the form of the cell is WHNF, whatever form it
\* had; the unreachable!() arms of Value::kind and Form::normalize_nf are
\* never reached.
C16_KindIsWhnf ==
    /\ panic # "unreachable"
    /\ (last.op = "kind" /\ panic = "none") => heap[last.a].form = "WHNF"
    /\ panic = "none" => \A c \in Owned : KindReturns(c) /\ NfReaches(c)

\* kind() returned on a cell that was a Thunk and the caller holds the Ref
C16_Witness ==
    /\ last.op = "kind" /\ panic = "none"
    /\ last.a \in Owned
    /\ urefs[last.a] > 0
    /\ heap[last.a].form = "WHNF" /\ heap[last.a].nev = 1
    /\ KindReturns(last.a)

\* get_type on c: Ok(the stored type) when there is one, Err(Sort) when
\* there is none, and no cell is touched
GetTypeReturns(c) ==
    LET Return(r) ==
            /\ Ok(r.st)
            /\ r.ok <=> heap[c].ty # NoValue
            /\ r.ok => r.value = heap[c].ty /\ r.err = "none"
            /\ ~r.ok => r.err = "Sort"
            /\ r.st.heap = heap
    IN  Return(Value_get_type(Start, c))

\* C17: get_type returns Err(TypeError Sort) exactly when the cell has no
\* type and Ok(the stored type) otherwise, and leaves the cell's form as it
\* was: it does not force the cell.
C17_GetType ==
    /\ panic = "none" => \A c \in Owned : GetTypeReturns(c)
    /\ last.op = "get_type" => /\ panic = "none"
                               /\ last.ok <=> heap[last.a].ty # NoValue

\* get_type returned the Sort error on a cell still unforced, and a cell
\* with a type is there to compare
C17_Witness ==
    /\ last.op = "get_type" /\ ~last.ok
    /\ last.a \in Owned
    /\ heap[last.a].form = "Thunk"
    /\ GetTypeReturns(last.a)
    /\ \E c \in Owned : GetTypeReturns(c) /\ Value_get_type(Start, c).ok

\* C18: check_type panics (in a debug build) whenever the type passed to it
\* differs from the type of the value, so to_whnf_check_type does not return
\* a kind for a value whose type is not the expected one.
C18_CheckTypePanics ==
    (last.op = "to_whnf_check_type" /\ ~last.ok) => panic # "none"

\* The cell is ValueKind::EmptyListLit(t) in WHNF
IsEmptyListLit(c) ==
    /\ c \in Owned
    /\ heap[c].form = "WHNF"
    /\ heap[c].k.tag = "EmptyListLit"

\* The expression `List t` over the converted t, typed Type
ListOf(tye) ==
    TyExpr_new("App", "", 0,
               <<TyExpr_new("Builtin", "List", 0, <<>>, NoValue, Artificial), tye>>,
               TypeCell, Artificial)

\* to_tyexpr on the EmptyListLit(t) cell c gives an EmptyListLit node whose
\* one sub-expression is `holds` of the converted t
EmptyListHolds(c, applied) ==
    LET T(rt) ==
            LET R(r) ==
                    (Ok(rt.st) /\ Ok(r.st)) =>
                        /\ r.tye.tag = "EmptyListLit"
                        /\ r.tye.subs = <<IF applied THEN ListOf(rt.tye) ELSE rt.tye>>
                        /\ r.st.heap[c].k.vals = heap[c].k.vals
            IN  R(Value_to_tyexpr(rt.st, c, 0))
    IN  T(Value_to_tyexpr(Start, heap[c].k.vals[1], 0))

\* The element types written after `[] : List`
ElementTypes == {Ident("Natural"), Ident("Type"), Ident(" x")}

\* The parser's node for `[] : List t` is ListLit(Some(t), vec![]) over the
\* node of t
ParsedEmptyList(t) ==
    LET El(e) ==
            LET Then(r) == r = POk(Node("ListLit", "Some", 0, <<e.val>>))
            IN  Then(Callback("expression",
                              Pair("empty_collection", "",
                                   <<Pair("List_raw", "List ", <<>>), t>>), 1))
    IN  El(Callback("expression", t, 1))

\* C19 as stated: the parser's node for `[] : List t`, ValueKind::EmptyListLit
\* and the EmptyListLit node to_tyexpr produces all hold t itself, not the
\* application `List t`.
C19_ElementTypeEverywhere ==
    panic = "none" =>
        /\ \A t \in ElementTypes : ParsedEmptyList(t)
        /\ \A c \in DOMAIN heap : IsEmptyListLit(c) => EmptyListHolds(c, FALSE)

\* C19 amended: the parser's node for `[] : List t` and
\* ValueKind::EmptyListLit hold the element type t itself, and to_tyexpr
\* leaves the kind so; the EmptyListLit node to_tyexpr produces holds the
\* application `List t`, typed Type, over the converted t.
C19_ElementTypeInKind ==
    /\ panic = "none" =>
          /\ \A t \in ElementTypes : ParsedEmptyList(t)
          /\ \A c \in DOMAIN heap : IsEmptyListLit(c) => EmptyListHolds(c, TRUE)
    /\ (last.op = "to_tyexpr" /\ panic = "none" /\ IsEmptyListLit(last.a)) =>
          /\ last.out.tag = "EmptyListLit"
          /\ last.out.subs[1].tag = "App"
          /\ last.out.subs[1].subs[1].sub = "List"

\* to_tyexpr returned on an EmptyListLit(t) whose t was a Thunk
C19_Witness ==
    /\ last.op = "to_tyexpr" /\ panic = "none"
    /\ IsEmptyListLit(last.a)
    /\ heap[heap[last.a].k.vals[1]].nev = 1
    /\ last.out.tag = "EmptyListLit"
    /\ EmptyListHolds(last.a, TRUE)

IsOperators(parsed) ==
    /\ parsed.status = "Ok"
    /\ ChainOf(parsed).rule = "operator_expression"

\* The tree of a op1 b op2 c with * binding tighter than +
Climbed(pair) ==
    LET a == Node("NaturalLit", "", Lit(pair.kids[1].kids[1]), <<>>)
        b == Node("NaturalLit", "", Lit(pair.kids[3].kids[1]), <<>>)
        c == Node("NaturalLit", "", Lit(pair.kids[5].kids[1]), <<>>)
    IN  IF pair.kids[2].rule = "natural_plus"
        THEN Node("NaturalPlus", "", 0, <<a, Node("NaturalTimes", "", 0, <<b, c>>)>>)
        ELSE Node("NaturalPlus", "", 0, <<Node("NaturalTimes", "", 0, <<a, b>>), c>>)

\* C20: operator precedence is respected when the AST is built: a + b * c
\* parses to NaturalPlus(a, NaturalTimes(b, c)) and a * b + c to
\* NaturalPlus(NaturalTimes(a, b), c), for every arrangement of operands.
C20_Precedence ==
    (result # <<>> /\ IsOperators(input)) =>
        /\ result.status = "Ok"
        /\ result.val = Climbed(ChainOf(input))

----------------------------------------------------------------------------
(* The grammar build.rs writes: the rules for labels and `missing`. A text is *)
(* a sequence of one-character strings; a rule applied to a text gives the   *)
(* number of characters it takes from the front, or NoMatch.                  *)

NoMatch == 0 - 1

\* The keywords and builtin names of the ABNF, each rule an ordered choice
Keywords ==
    << <<"i", "f">>, <<"i", "n">>, <<"l", "e", "t">>, <<"a", "s">>,
       <<"m", "i", "s", "s", "i", "n", "g">> >>

BuiltinNames ==
    << <<"L", "i", "s", "t", "/", "f", "o", "l", "d">>, <<"L", "i", "s", "t">>,
       <<"B", "o", "o", "l">>, <<"T", "y", "p", "e">> >>

\* simple-label-first-char = ALPHA / "_"
simple_label_first_char(ch) ==
    ch \in {"a", "b", "d", "e", "f", "g", "i", "l", "m", "n", "o", "p", "s", "t", "x", "y",
            "B", "L", "T", "_"}

\* simple-label-next-char = ALPHA / DIGIT / "-" / "/" / "_"
simple_label_next_char(ch) ==
    simple_label_first_char(ch) \/ ch \in {"1", "-", "/"}

\* A literal: the text starts with w
Literal(w, s) ==
    IF Len(s) >= Len(w) /\ SubSeq(s, 1, Len(w)) = w THEN Len(w) ELSE NoMatch

\* An ordered choice of literals: the first alternative that matches
RECURSIVE Choice(_, _)
Choice(ws, s) ==
    IF ws = <<>> THEN NoMatch
    ELSE IF Literal(Head(ws), s) # NoMatch THEN Literal(Head(ws), s)
    ELSE Choice(Tail(ws), s)

\* simple_label_next_char*, greedy, from position i + 1: how many it takes
RECURSIVE NextChars(_, _)
NextChars(s, i) ==
    IF i < Len(s) /\ simple_label_next_char(s[i + 1]) THEN 1 + NextChars(s, i + 1) ELSE 0

\* A missing that has no lookahead
missing_greedy(s) ==
    Literal(<<"m", "i", "s", "s", "i", "n", "g">>, s)

\* missing = { "missing" ~ !simple_label_next_char }
missing(s) ==
    IF Literal(<<"m", "i", "s", "s", "i", "n", "g">>, s) # NoMatch
       /\ NextChars(s, 7) = 0
    THEN 7 ELSE NoMatch

\* A simple_label that takes a keyword with whatever follows
simple_label_any(s) ==
    IF Choice(Keywords, s) # NoMatch
    THEN Choice(Keywords, s) + NextChars(s, Choice(Keywords, s))
    ELSE IF s # <<>> /\ simple_label_first_char(s[1]) THEN 1 + NextChars(s, 1)
    ELSE NoMatch

\* simple_label = { keyword ~ simple_label_next_char+
\*                | !keyword ~ simple_label_first_char ~ simple_label_next_char* }
simple_label(s) ==
    IF Choice(Keywords, s) # NoMatch /\ NextChars(s, Choice(Keywords, s)) >= 1
    THEN Choice(Keywords, s) + NextChars(s, Choice(Keywords, s))
    ELSE IF Choice(Keywords, s) = NoMatch /\ s # <<>> /\ simple_label_first_char(s[1])
    THEN 1 + NextChars(s, 1)
    ELSE NoMatch

\* A nonreserved_label that forbids nothing
nonreserved_label_any(s) ==
    simple_label(s)

\* nonreserved_label = _{ !(builtin ~ !simple_label_next_char) ~ label }, the
\* label being a simple_label
nonreserved_label(s) ==
    IF Choice(BuiltinNames, s) # NoMatch /\ NextChars(s, Choice(BuiltinNames, s)) = 0
    THEN NoMatch
    ELSE simple_label(s)

\* What may follow a word in the texts tried
Tails ==
    { <<>>, <<" ">>, <<"x">>, <<"1">>, <<"/">>, <<"_", "x">>, <<"x", " ">>, <<".", "x">>,
      <<"f", "o", "o">> }

SeqOf(ws) == {ws[i] : i \in DOMAIN ws}

Words ==
    {w \o t : w \in SeqOf(Keywords) \cup SeqOf(BuiltinNames)
                       \cup {<<"x">>, <<"_">>, <<"1">>, <<"i">>, <<"m", "i", "s", "s">>},
              t \in Tails}

GrammarInit ==
    /\ built = FALSE
    /\ heap = <<>>
    /\ handles = [c \in CellIds |-> 0]
    /\ urefs = [c \in CellIds |-> 0]
    /\ panic = "none"
    /\ fresh = 0
    /\ last = Last("init", 0, TRUE, NoTyExpr)
    /\ texts = <<>>
    /\ input \in Words
    /\ result = <<>>
    /\ calls = <<>>

\* The three rules applied to the text
MatchRules ==
    /\ result = <<>>
    /\ result' = [simple_label |-> simple_label(input),
                  nonreserved_label |-> nonreserved_label(input),
                  missing |-> missing(input)]
    /\ UNCHANGED <<built, heap, handles, urefs, panic, fresh, last, texts, input, calls>>

GrammarNext == MatchRules

GrammarSpec == GrammarInit /\ [][GrammarNext]_vars

----------------------------------------------------------------------------
(* The test generator of build.rs. A path is a sequence of bytes, a byte a   *)
(* string; the letter e with an acute accent is the two bytes "C3", "A9".     *)

MaxFiles == 2

File(stem, ext) == [stem |-> stem, ext |-> ext]

\* FileType::to_ext
to_ext(filetype) == IF filetype = "Text" THEN "dhall" ELSE "dhallb"

\* str::is_char_boundary of the index i (counted from 0) of s
is_char_boundary(s, i) ==
    i = 0 \/ i = Len(s) \/ (i < Len(s) /\ s[i + 1] \notin {"A9"})

\* str::replace of one byte by another
str_replace(s, from, to) == [i \in DOMAIN s |-> IF s[i] = from THEN to ELSE s[i]]

\* A closure of dhall_files_in_dir that takes the suffix off every file
dhall_files_in_dir_any(file, take_a_suffix, filetype) ==
    IF file.ext # to_ext(filetype) THEN [status |-> "None"]
    ELSE IF take_a_suffix /\ ~is_char_boundary(file.stem, Len(file.stem) - 1)
    THEN [status |-> "panic"]
    ELSE LET path == IF take_a_suffix THEN SubSeq(file.stem, 1, Len(file.stem) - 1)
                     ELSE file.stem
         IN [status |-> "Some",
             name |-> str_replace(str_replace(path, "/", "_"), "-", "_"),
             path |-> path]

\* The closure dhall_files_in_dir applies to one directory entry
dhall_files_in_dir(file, take_a_suffix, filetype) ==
    IF file.ext # to_ext(filetype) THEN [status |-> "None"]
    ELSE IF take_a_suffix /\ ~is_char_boundary(file.stem, Len(file.stem) - 1)
    THEN [status |-> "panic"]
    ELSE IF take_a_suffix /\ file.stem[Len(file.stem)] # "A" THEN [status |-> "None"]
    ELSE LET path == IF take_a_suffix THEN SubSeq(file.stem, 1, Len(file.stem) - 1)
                     ELSE file.stem
         IN [status |-> "Some",
             name |-> str_replace(str_replace(path, "/", "_"), "-", "_"),
             path |-> path]

TestFeature(input_type, output_type, path_filter) ==
    [input_type |-> input_type, output_type |-> output_type, path_filter |-> path_filter]

\* The line make_test_module writes for one (name, path)
SpecTest(feature, name, path) ==
    [name |-> name,
     files |-> IF feature.output_type = "None"
               THEN <<File(path, to_ext(feature.input_type))>>
               ELSE <<File(path \o <<"A">>, to_ext(feature.input_type)),
                      File(path \o <<"B">>, to_ext(feature.output_type))>>]

\* make_test_module over the entries in the order WalkDir gives them: the
\* lines written, and whether the walk panicked
RECURSIVE make_test_module(_, _, _)
make_test_module(entries, feature, written) ==
    IF entries = <<>> THEN [tests |-> written, panic |-> FALSE]
    ELSE LET Then(r) ==
                 IF r.status = "panic" THEN [tests |-> written, panic |-> TRUE]
                 ELSE IF r.status = "None" \/ r.path \in feature.path_filter
                 THEN make_test_module(Tail(entries), feature, written)
                 ELSE make_test_module(Tail(entries), feature,
                                       Append(written, SpecTest(feature, r.name, r.path)))
         IN Then(dhall_files_in_dir(Head(entries), feature.output_type # "None",
                                    feature.input_type))

TestFiles ==
    { File(<<"x", "A">>, "dhall"), File(<<"x", "B">>, "dhallb"), File(<<"x", "B">>, "dhall"),
      File(<<"y">>, "dhall"), File(<<"d", "/", "z", "-", "A">>, "dhall"),
      File(<<"x", "A">>, "dhallb"), File(<<"x", "A">>, "txt"),
      File(<<"C3", "A9">>, "dhall"), File(<<"C3", "A9", "A">>, "dhall") }

TestFeatures ==
    { TestFeature("Text", "Binary", {<<"y">>, <<"d", "/", "z", "-">>}),
      TestFeature("Text", "None", {}),
      TestFeature("Text", "None", {<<"y">>}),
      TestFeature("Text", "Text", {}),
      TestFeature("Binary", "Text", {}) }

\* The orders in which a directory walk can give a set of entries
Orders(dir) ==
    {o \in [1..Cardinality(dir) -> dir] : \A i, j \in DOMAIN o : i # j => o[i] # o[j]}

GeneratorInit ==
    /\ built = FALSE
    /\ heap = <<>>
    /\ handles = [c \in CellIds |-> 0]
    /\ urefs = [c \in CellIds |-> 0]
    /\ panic = "none"
    /\ fresh = 0
    /\ last = Last("init", 0, TRUE, NoTyExpr)
    /\ texts = <<>>
    /\ \E dir \in SUBSET TestFiles, feature \in TestFeatures :
          /\ Cardinality(dir) <= MaxFiles
          /\ input = [dir |-> dir, feature |-> feature]
    /\ result = <<>>
    /\ calls = <<>>

MakeTestModule ==
    /\ result = <<>>
    /\ \E entries \in Orders(input.dir) :
          LET Then(r) ==
                  /\ result' = [tests |-> r.tests]
                  /\ panic' = IF r.panic THEN "char boundary" ELSE "none"
          IN Then(make_test_module(entries, input.feature, <<>>))
    /\ UNCHANGED <<built, heap, handles, urefs, fresh, last, texts, input, calls>>

GeneratorNext == MakeTestModule

GeneratorSpec == GeneratorInit /\ [][GeneratorNext]_vars

----------------------------------------------------------------------------
(* match_iter!, as the macro expands: the statements of the expansion run in *)
(* order on the iterator, the first break ends the match.                     *)

MaxItems == 4
MaxPattern == 3

IterMatch(err, iter, caps) == [err |-> err, iter |-> iter, caps |-> caps]

RECURSIVE match_iter(_, _, _)

\* A match_iter! that takes an item after the variable-length one from the
\* back before it expands the rest
match_iter_eager(w, iter, pat) ==
    IF pat = <<>>
    THEN IF w = 0 /\ iter # <<>> THEN IterMatch("TooManyItems", <<>>, <<>>)
         ELSE IterMatch("", iter, <<>>)
    ELSE IF w = 0 /\ Head(pat).mode = "star"
    THEN LET Then(r) ==
                 IF r.err # "" THEN r
                 ELSE IterMatch("", <<>>, <<r.iter>> \o r.caps)
         IN  Then(match_iter(2, iter, Tail(pat)))
    ELSE IF w = 0 /\ Head(pat).mode = "opt"
    THEN LET Then(r) ==
                 IF r.err # "" THEN r
                 ELSE IF Len(r.iter) > 1 THEN IterMatch("TooManyItems", <<>>, <<>>)
                 ELSE IterMatch("", <<>>, <<r.iter>> \o r.caps)
         IN  Then(match_iter(1, iter, Tail(pat)))
    ELSE IF w = 0
    THEN IF iter = <<>> THEN IterMatch("NotEnoughItems", <<>>, <<>>)
         ELSE LET Then(r) ==
                      IF r.err # "" THEN r
                      ELSE IterMatch("", r.iter, <<<<Head(iter)>>>> \o r.caps)
              IN  Then(match_iter(0, Tail(iter), Tail(pat)))
    ELSE IF iter = <<>> THEN IterMatch("NotEnoughItems", <<>>, <<>>)
         ELSE LET Then(r) ==
                      IF r.err # "" THEN r
                      ELSE IterMatch("", r.iter, <<<<iter[Len(iter)]>>>> \o r.caps)
              IN  Then(match_iter(w, SubSeq(iter, 1, Len(iter) - 1), Tail(pat)))

\* match_iter!(@match w, iter, pat): the iterator left and what each item of
\* the pattern is bound to, or the error of the first break
match_iter(w, iter, pat) ==
    IF pat = <<>>
    THEN \* Check no elements remain
         IF w = 0 /\ iter # <<>> THEN IterMatch("TooManyItems", <<>>, <<>>)
         ELSE IterMatch("", iter, <<>>)
    ELSE IF w = 0 /\ Head(pat).mode = "star"
    THEN \* Everything else pattern
         LET Then(r) ==
                 IF r.err # "" THEN r
                 ELSE IterMatch("", <<>>, <<r.iter>> \o r.caps)
         IN  Then(match_iter(2, iter, Tail(pat)))
    ELSE IF w = 0 /\ Head(pat).mode = "opt"
    THEN \* Optional pattern
         LET Then(r) ==
                 IF r.err # "" THEN r
                 ELSE IF Len(r.iter) > 1 THEN IterMatch("TooManyItems", <<>>, <<>>)
                 ELSE IterMatch("", <<>>, <<r.iter>> \o r.caps)
         IN  Then(match_iter(1, iter, Tail(pat)))
    ELSE IF w = 0
    THEN \* Normal pattern
         IF iter = <<>> THEN IterMatch("NotEnoughItems", <<>>, <<>>)
         ELSE LET Then(r) ==
                      IF r.err # "" THEN r
                      ELSE IterMatch("", r.iter, <<<<Head(iter)>>>> \o r.caps)
              IN  Then(match_iter(0, Tail(iter), Tail(pat)))
    ELSE \* Normal pattern after a variable length one
         LET Then(r) ==
                 IF r.err # "" THEN r
                 ELSE IF r.iter = <<>> THEN IterMatch("NotEnoughItems", <<>>, <<>>)
                 ELSE IterMatch("", SubSeq(r.iter, 1, Len(r.iter) - 1),
                                <<<<r.iter[Len(r.iter)]>>>> \o r.caps)
         IN  Then(match_iter(w, iter, Tail(pat)))

\* The patterns the macro accepts: at most one x? or x* among the items
Patterns ==
    UNION {{p \in [1..n -> {P("item"), O("item"), S("item")}] :
               Cardinality({i \in 1..n : p[i].mode # "one"}) <= 1} : n \in 0..MaxPattern}

MacroInit ==
    /\ built = FALSE
    /\ heap = <<>>
    /\ handles = [c \in CellIds |-> 0]
    /\ urefs = [c \in CellIds |-> 0]
    /\ panic = "none"
    /\ fresh = 0
    /\ last = Last("init", 0, TRUE, NoTyExpr)
    /\ texts = <<>>
    /\ \E n \in 0..MaxItems, pat \in Patterns :
          input = [items |-> [i \in 1..n |-> i], pat |-> pat]
    /\ result = <<>>
    /\ calls = <<>>

\* match_iter!(@get_err, iter; (pat) => body)
MatchIterGetErr ==
    /\ result = <<>>
    /\ LET Then(r) == result' = [err |-> r.err, caps |-> r.caps]
       IN  Then(match_iter(0, input.items, input.pat))
    /\ UNCHANGED <<built, heap, handles, urefs, panic, fresh, last, texts, input, calls>>

MacroNext == MatchIterGetErr

MacroSpec == MacroInit /\ [][MacroNext]_vars

----------------------------------------------------------------------------
(* Properties of identifiers, let, match_iter! and the callers of the types *)

IsIdentifier(parsed) ==
    /\ parsed.status = "Ok"
    /\ ChainOf(parsed).rule = "identifier_raw"

\* The node the identifier stands for: a constant, a Bool literal, a builtin,
\* or the variable with the index written, 0 when none is
Classified(pair) ==
    LET name == Trimmed(pair.kids[1].str)
        idx  == IF Len(pair.kids) = 2 THEN Lit(pair.kids[2]) ELSE 0
    IN  CASE name \in {"Type", "Kind", "Sort"} -> Node("Const", name, 0, <<>>)
          [] name = "True" -> Node("BoolLit", "true", 0, <<>>)
          [] name = "False" -> Node("BoolLit", "false", 0, <<>>)
          [] name \in Builtins -> Node("Builtin", name, 0, <<>>)
          [] OTHER -> Node("Var", name, idx, <<>>)

\* C21: the names Type, Kind and Sort become constants, True and False Bool
\* literals, builtin names builtins, and every other name Var(name, index)
\* with the index written in the source, 0 when there is none.
C21_IdentifierClass ==
    (result # <<>> /\ IsIdentifier(input)) =>
        result = POk(Classified(ChainOf(input)))

Ran(fn) == {i \in DOMAIN calls : calls[i].fn = fn}

\* C22: normalize runs only after parse_expr returned Ok and type_of
\* returned Ok; after a parse error neither type_of nor normalize runs, and
\* after a type error normalize does not run.
C22_TypedBeforeNormalize ==
    /\ \A i \in Ran("normalize") :
          /\ \E j \in 1..(i - 1) : calls[j] = Call("type_of", TRUE)
          /\ \E j \in 1..(i - 1) : calls[j] = Call("parse_expr", TRUE)
          /\ result.status = "Ok"
    /\ \A i \in Ran("type_of") : \E j \in 1..(i - 1) : calls[j] = Call("parse_expr", TRUE)
    /\ (\E i \in DOMAIN calls : calls[i] = Call("parse_expr", FALSE)) =>
          Ran("type_of") = {} /\ Ran("normalize") = {}
    /\ (\E i \in DOMAIN calls : calls[i] = Call("type_of", FALSE)) =>
          Ran("normalize") = {}

\* normalize ran, on an expression that parsed and type-checked
C22_Witness ==
    /\ LastCall.fn = "normalize"
    /\ result.status = "Ok"
    /\ calls = <<Call("parse_expr", TRUE), Call("panic_imports", TRUE),
                 Call("type_of", TRUE), Call("normalize", TRUE)>>

\* The text is the word w followed by n >= 0 label characters and then by
\* the end or by a character no label holds
WordThen(w, s, n) ==
    /\ Literal(w, s) # NoMatch
    /\ NextChars(s, Len(w)) = n

\* C23: reserved words are recognised only when no label character follows:
\* a bare keyword is no simple_label while a keyword followed by a label
\* character is one; a builtin name is no nonreserved_label unless a label
\* character follows it; `missing` is not matched in `missingfoo`.
C23_ReservedWords ==
    result # <<>> =>
        /\ \A w \in SeqOf(Keywords) :
              /\ WordThen(w, input, 0) => result.simple_label = NoMatch
              /\ (Literal(w, input) # NoMatch /\ NextChars(input, Len(w)) >= 1) =>
                    result.simple_label = Len(w) + NextChars(input, Len(w))
        /\ \A w \in SeqOf(BuiltinNames) :
              /\ WordThen(w, input, 0) => result.nonreserved_label = NoMatch
              /\ (Literal(w, input) # NoMatch /\ NextChars(input, Len(w)) >= 1
                    /\ \A v \in SeqOf(BuiltinNames) : ~WordThen(v, input, 0)) =>
                    result.nonreserved_label = Len(w) + NextChars(input, Len(w))
        /\ Literal(<<"m", "i", "s", "s", "i", "n", "g">>, input) # NoMatch =>
              (result.missing = NoMatch <=> NextChars(input, 7) >= 1)
        /\ Literal(<<"m", "i", "s", "s", "i", "n", "g">>, input) = NoMatch =>
              result.missing = NoMatch

\* The rules were applied to `missingfoo`
C23_Witness ==
    /\ result # <<>>
    /\ input = <<"m", "i", "s", "s", "i", "n", "g", "f", "o", "o">>
    /\ result.missing = NoMatch
    /\ result.simple_label = 10

\* The tests written whose first file is f
TestsOf(f) == {i \in DOMAIN result.tests : result.tests[i].files[1] = f}

EndsInA(f) == f.stem # <<>> /\ f.stem[Len(f.stem)] = "A"

\* The path the filter is asked about
FilterPath(f) ==
    IF input.feature.output_type = "None" THEN f.stem
    ELSE SubSeq(f.stem, 1, Len(f.stem) - 1)

\* The tests the claim gives the file f of the directory
Expected(f) ==
    IF f.ext # to_ext(input.feature.input_type) THEN 0
    ELSE IF input.feature.output_type # "None" /\ ~EndsInA(f) THEN 0
    ELSE IF FilterPath(f) \in input.feature.path_filter THEN 0
    ELSE 1

\* C24: once the module is generated, a file <p>A.<input ext> of a feature
\* with an output type has exactly one test, which names it and
\* <p>B.<output ext>; a file whose stem does not end in A has none; without
\* an output type every file with the input extension has exactly one test
\* of one file; a filtered path has none.
C24_Pairing ==
    result # <<>> =>
        \A f \in input.dir :
            /\ Cardinality(TestsOf(f)) = Expected(f)
            /\ \A i \in TestsOf(f) :
                   result.tests[i].files =
                       IF input.feature.output_type = "None" THEN <<f>>
                       ELSE <<f, File(FilterPath(f) \o <<"B">>,
                                      to_ext(input.feature.output_type))>>

IsLet(parsed) ==
    /\ parsed.status = "Ok"
    /\ ChainOf(parsed).rule = "let_expression"

RECURSIVE LetNest(_, _)
\* Let(x1, e1, Let(x2, e2, ... b)): the bindings nested in source order
LetNest(bindings, body) ==
    IF bindings = <<>> THEN body
    ELSE LET Then(b) ==
                 Node("Let", b.val.sub, 0, b.val.kids \o <<LetNest(Tail(bindings), body)>>)
         IN  Then(Callback("let_binding", Head(bindings), 1))

\* C25: `let x1 = e1 let x2 = e2 in b` is built as
\* Let(x1, e1, Let(x2, e2, b)), the first binding outermost.
C25_LetNesting ==
    (result # <<>> /\ IsLet(input)) =>
        LET kids == ChainOf(input).kids
            Then(b) == result = POk(LetNest(SubSeq(kids, 1, Len(kids) - 1), b.val))
        IN  Then(Callback("expression", kids[Len(kids)], 1))

\* The thunk closure.apply(v) makes
AppliedTo(st, c, clo, v) ==
    ThunkOf(st, c, IF clo.ctag = "Closure" THEN Append(clo.env, v) ELSE clo.env, clo.body)

\* f.app(v) from the state the caller is in: with a type whose kind is a
\* PiClosure it returns, and the cell returned is new, in WHNF, typed by the
\* new thunk of the Pi's closure over v, and holds the body of f forced, or
\* the application of f to v when f is no lambda; with any other type, or
\* none, it panics; the types of f and v stay
AppLaw(f, v) ==
    LET Law(r) ==
            LET TKind(tk) ==
                    LET FKind(fk) ==
                            LET Forced(b) ==
                                    /\ Ok(r)
                                    /\ NewId(r) > Len(heap)
                                    /\ r.heap[NewId(r)].form = "WHNF"
                                    /\ r.heap[NewId(r)].ty > Len(heap)
                                    /\ r.heap[NewId(r)].ty < NewId(r)
                                    /\ AppliedTo(r, r.heap[NewId(r)].ty, tk.kind.clo, v)
                                    /\ r.heap[NewId(r)].k =
                                          IF fk.kind.tag = "LamClosure" THEN b.kind
                                          ELSE Kind("App", "", 0, <<f, v>>, NoClosure)
                                    /\ r.heap[f].ty = heap[f].ty
                                    /\ r.heap[v].ty = heap[v].ty
                            IN  IF ~Ok(fk.st) THEN ~Ok(r)
                                ELSE IF fk.kind.tag # "LamClosure" THEN Forced(fk)
                                ELSE Forced(Value_to_whnf_ignore_type(
                                                Closure_apply(fk.st, fk.kind.clo, v),
                                                NewId(fk.st) + 1))
                    IN  IF ~Ok(tk.st) THEN ~Ok(r)
                        ELSE IF tk.kind.tag # "PiClosure" THEN r.panic = "unreachable"
                        ELSE FKind(Value_to_whnf_ignore_type(tk.st, f))
            IN  IF heap[f].ty = NoValue THEN r.panic = "expect"
                ELSE TKind(Value_to_whnf_ignore_type(Start, heap[f].ty))
    IN  Law(Value_app(Start, f, v))

\* C26: f.app(a) with f typed by a PiClosure returns a new cell in WHNF whose
\* type is the Pi's closure applied to the Value a and whose kind is f
\* applied to a; the types of f and a are unchanged; when the type of f is
\* not a PiClosure, or f has none (Sort), it panics.
C26_App ==
    (panic = "none" /\ built) => \A f \in Owned, v \in Owned : AppLaw(f, v)

\* A lambda typed by a Pi was applied and the Value came back typed by the
\* thunk of the Pi's closure
C26_Witness ==
    /\ last.op = "app" /\ last.ok /\ panic = "none"
    /\ heap[heap[last.a].ty].k.tag = "PiClosure"
    /\ heap[last.a].k.tag = "LamClosure"
    /\ heap[Len(heap)].form = "WHNF"
    /\ heap[heap[Len(heap)].ty].form = "Thunk"

\* normalize_mut and normalize_nf on c from the state the caller is in: the
\* same heap and the same outcome
SameNormalForms(c) ==
    LET Mut(m) ==
            LET Nf(n) ==
                    /\ m.heap = n.heap
                    /\ m.panic = n.panic
            IN  Nf(ValueInternal_normalize_nf(Start, c))
    IN  Mut(Value_normalize_mut(Start, c))

\* C27: from the same state normalize_mut, by the sole owner's direct
\* mutation or through the RefCell, and normalize_nf leave the cell and
\* every sub-cell in the same form, shared or not.
C27_SameNormalForms ==
    panic = "none" =>
        \A c \in Owned : (urefs[c] > 0 => handles[c] >= 2) => SameNormalForms(c)

\* normalize_mut ran on a Value nobody shares that holds sub-Values, and
\* there is a shared Value to normalise too
C27_Witness ==
    /\ last.op = "normalize_mut" /\ panic = "none"
    /\ StrongCount(Start, last.a) = 1
    /\ heap[last.a].form = "WHNF"
    /\ NormalizeMutTargets(heap[last.a].k) # <<>>
    /\ \A i \in DOMAIN NormalizeMutTargets(heap[last.a].k) :
          heap[NormalizeMutTargets(heap[last.a].k)[i]].form = "WHNF"
    /\ \E d \in Owned : StrongCount(Start, d) > 1

\* The cell c holds the placeholder PartialExpr(Const Type)
Placeholder(st, c) ==
    /\ st.heap[c].form = "PartialExpr"
    /\ st.heap[c].k = Dummy

\* normalize_whnf on c, where it returns, leaves c in WHNF with the kind the
\* form c holds now evaluates to, and no cell with the placeholder
Promoted(c) ==
    LET Was(e) ==
            LET Now(r) ==
                    Ok(r) =>
                        /\ Ok(e.st)
                        /\ r.heap[c].form = "WHNF"
                        /\ r.heap[c].k = e.kind
                        /\ \A d \in DOMAIN r.heap : ~Placeholder(r, d)
            IN  Now(ValueInternal_normalize_whnf(Start, c))
    IN  Was(CASE heap[c].form = "Thunk" -> Thunk_eval(Start, heap[c].env, heap[c].body)
              [] heap[c].form = "PartialExpr" /\ heap[c].ty # NoValue ->
                    normalize_one_layer(Start, heap[c].k, heap[c].ty, <<>>)
              [] OTHER -> Ret(Start, KConst("Sort")))

ForcedByLayer(c) ==
    LET Layer(e) ==
            LET Now(r) == Ok(r) => (Ok(e.st) /\ r.heap[c].k = e.kind)
            IN  Now(ValueInternal_normalize_whnf(Start, c))
    IN  Layer(normalize_one_layer(Start, heap[c].k, heap[c].ty, <<>>))

\* C29: no cell in PartialExpr form lacks a type, so forcing one goes through
\* normalize_one_layer and never through the branch that answers Const(Sort)
\* for a PartialExpr without a type.
C29_PartialExprTyped ==
    \A c \in DOMAIN heap :
        heap[c].form = "PartialExpr" =>
            /\ heap[c].ty # NoValue
            /\ (panic = "none" /\ c \in Owned) => ForcedByLayer(c)

\* A PartialExpr the one-layer rules do not consume was forced: it has a
\* type and its kind is the expression itself
C29_Witness ==
    /\ last.op = "normalize_whnf" /\ panic = "none"
    /\ heap[last.a].form = "WHNF"
    /\ heap[last.a].k.tag = "PartialExpr"
    /\ heap[last.a].ty # NoValue

\* The fixed items of a pattern, and the place of its x? or x*, 0 for none
FixedItems(pat) == Cardinality({i \in DOMAIN pat : pat[i].mode = "one"})

VariableItem(pat) ==
    IF FixedItems(pat) = Len(pat) THEN 0
    ELSE CHOOSE i \in DOMAIN pat : pat[i].mode # "one"

\* What the item i of the pattern takes of the n elements
Taken(items, pat, i) ==
    LET v == VariableItem(pat)
    IN  IF v = 0 \/ i < v THEN <<items[i]>>
        ELSE IF i = v THEN SubSeq(items, v, Len(items) - (Len(pat) - v))
        ELSE <<items[Len(items) - (Len(pat) - i)]>>

\* C30: match_iter! binds by position: the items before the x? or x* take
\* the front elements in order, those after it the back elements in order,
\* x* the elements between and x? the one between or none; NotEnoughItems
\* when there are fewer elements than fixed items, TooManyItems when
\* elements remain that no item can take.
C30_Positional ==
    result # <<>> =>
        LET items == input.items
            pat   == input.pat
            v     == VariableItem(pat)
            room  == IF v = 0 THEN 0 ELSE IF pat[v].mode = "opt" THEN 1 ELSE Len(items)
        IN  /\ result.err = "NotEnoughItems" <=> Len(items) < FixedItems(pat)
            /\ result.err = "TooManyItems" <=> Len(items) > FixedItems(pat) + room
            /\ result.err \in {"", "NotEnoughItems", "TooManyItems"}
            /\ result.err = "" =>
                  /\ Len(result.caps) = Len(pat)
                  /\ \A i \in DOMAIN pat : result.caps[i] = Taken(items, pat, i)

\* (y*, z, w) matched four elements: y took the first two, z and w the last
\* two in their order
C30_Witness ==
    /\ result # <<>>
    /\ input.pat = <<S("item"), P("item"), P("item")>>
    /\ input.items = <<1, 2, 3, 4>>
    /\ result.err = ""
    /\ result.caps = << <<1, 2>>, <<3>>, <<4>> >>

====
